---- MODULE Spec2Model ----
(***************************************************************************)
(* Model of the output relay of flox-rust-sdk's providers/build.rs:        *)
(* FloxBuildMk::build spawns the make driver with piped stdout/stderr,     *)
(* starts two line-reading threads (read_output_to_channel) and one        *)
(* exit-waiter thread that share one std::sync::mpsc channel, and returns  *)
(* BuildOutput, whose Iterator::next is Receiver::recv().ok().             *)
(***************************************************************************)
EXTENDS Integers, Sequences, FiniteSets, TLC

\* ------------------------------------------------------------------ bounds
\* total number of lines a child writes over both pipes
MaxLines == 3
\* capacity of one OS pipe, counted in lines
PipeCap == 1
\* how many more times the consumer pulls after the first None
MaxNone == 1

\* ------------------------------------------------------------ value spaces
Streams == {"stdout", "stderr"}

SenderNames == {"stdout_sender", "stderr_sender", "command_status_sender"}

\* the sender a line-reading thread owns
SenderOf(s) == IF s = "stdout" THEN "stdout_sender" ELSE "stderr_sender"

\* a byte that is not valid UTF-8
BAD == "\\xff"

CR == "\\r"

\* the lines (without their terminating newline) a child may write
LineSet == { <<"a">>, <<"b", CR>>, <<BAD>> }

\* exit statuses the driver can end with on its own
ExitCodes == {"exit0", "exit1"}

\* the status of a child killed by SIGPIPE
SigPipe == "sigpipe"

\* the OS errors Command::spawn can fail with
OsErrors == {"ENOENT", "EACCES"}

\* ExitStatus::success
Success(status) == status = "exit0"

\* all sequences over S of length at most n
RECURSIVE SeqUpTo(_, _)
SeqUpTo(S, n) ==
    IF n = 0 THEN { <<>> }
    ELSE LET shorter == SeqUpTo(S, n - 1)
         IN  shorter \cup { Append(q, x) : q \in { r \in shorter : Len(r) = n - 1 }, x \in S }

\* the programs a child may run: what it writes to each pipe and its exit code
Programs ==
    { [stdout |-> o, stderr |-> e, code |-> c] :
        o \in SeqUpTo(LineSet, MaxLines), e \in SeqUpTo(LineSet, MaxLines), c \in ExitCodes }

\* ------------------------------------------------------------------- state
VARIABLES
    prog,        \* the program the driver runs (environment input)
    orphan,      \* a descendant of the driver still holds the pipes' write ends
    childSt,     \* "unspawned" | "spawnfailed" | "running" | "exited" | "reaped"
    childStatus, \* the status the child ended with, "none" while it runs
    wrote,       \* per pipe, how many of its lines the child has written
    pipe,        \* per pipe, the lines written and not yet read
    rdOpen,      \* per pipe, whether the parent still holds the read end
    spawnErr,    \* the OS error Command::spawn failed with, "none" otherwise
    bpc,         \* position of FloxBuildMk::build
    buildResult, \* what build returned, [kind |-> "none"] before it returns
    sender,      \* per sender, who holds it: "none" | "build" | "thread" | "dropped"
    rcv,         \* who holds the receiver: "none" | "build" | "consumer" | "dropped"
    rpc,         \* per line-reading thread: "notstarted" | "read" | "send" | "done"
    held,        \* per line-reading thread, the decoded line it is about to send
    warned,      \* per line-reading thread, the number of warnings logged
    wpc,         \* exit-waiter thread: "notstarted" | "wait" | "send" | "done"
    wstatus,     \* the status child.wait() returned to the exit waiter
    chan,        \* the events sent into the channel and not yet received
    cpc,         \* consumer: "idle" | "pulling" | "exhausted" | "dropped"
    received,    \* the events next() has returned, in order
    nones,       \* how many times next() has returned None
    racing       \* the readers still running when Output::Exit was sent

childVars == <<prog, orphan, childSt, childStatus, wrote, pipe, rdOpen>>
buildVars == <<spawnErr, bpc, buildResult>>
chanVars == <<sender, rcv, chan>>
readerVars == <<rpc, held, warned>>
waiterVars == <<wpc, wstatus, racing>>
consumerVars == <<cpc, received, nones>>

\* the state of one call of FloxBuildMk::build and of its relay
relayVars == <<prog, orphan, childSt, childStatus, wrote, pipe, rdOpen, spawnErr, bpc, buildResult,
               sender, rcv, rpc, held, warned, wpc, wstatus, chan, cpc, received, nones, racing>>

\* the state of one call of FloxBuildMk::clean
VARIABLES
    cprog,        \* the program the clean driver runs (environment input)
    corphan,      \* a descendant of the driver still holds the pipes' write ends
    cchildSt,     \* "unspawned" | "spawnfailed" | "running" | "exited" | "reaped"
    cchildStatus, \* the status the driver ended with, "none" while it runs
    cwrote,       \* per pipe, how many of its chunks the driver has written
    cpipe,        \* per pipe, the chunks written and not yet read by output()
    cbuf,         \* per pipe, the bytes output() has collected
    cspawnErr,    \* the OS error Command::output failed to spawn with
    clpc,         \* position of clean: "start" | "collecting" | "waited" | "returned"
    cstatus,      \* output.status
    cleanResult   \* what clean returned, [kind |-> "none"] before it returns

cleanVars == <<cprog, corphan, cchildSt, cchildStatus, cwrote, cpipe, cbuf, cspawnErr,
               clpc, cstatus, cleanResult>>

\* the construction of the make command line by build and by clean
VARIABLES
    base_dir,    \* the base_dir argument, a string (sequence of characters)
    flox_env,    \* the flox_env argument, a path (sequence of bytes)
    packages,    \* the packages argument, a sequence of strings
    buildDone,   \* build has put together its command
    buildArgv,   \* the arguments of the command build runs
    cleanDone,   \* clean has put together its command
    cleanArgv,   \* the arguments of the command clean runs
    buildStdio   \* what the three standard streams of the child of build are wired to

argVars == <<base_dir, flox_env, packages, buildDone, buildArgv, cleanDone, cleanArgv, buildStdio>>

\* the write step of Containerize::handle and its sink
VARIABLES
    target,      \* the OutputTarget: "file" | "stdout" | "docker" | "podman"
    imageLen,    \* how many chunks stream_container has to write (environment)
    lcode,       \* the status the loader ends with after reading all its input
    syncOk,      \* whether sync_all / flush of the destination succeeds (environment)
    hpc,         \* position of the write step
    sinkKind,    \* the sink to_writer made: "none" | "File" | "Stdout" | "Runtime"
    stepResult,  \* the result of the write step, [kind |-> "none"] before it ends
    waitResult,  \* what ContainerSink::wait returned: "none" | "Ok" | "IoError" | "ProcessFailed"
    ops,         \* the calls made on the sink, in order: "write" and "wait"
    sent,        \* the chunks written to the sink so far
    lSt,         \* the loader: "none" | "running" | "exited" | "reaped"
    lStatus,     \* the status the loader ended with, "none" while it runs
    stdinOpen,   \* the parent still holds the write end of the loader's stdin
    inPipe,      \* the chunks in the loader's stdin pipe
    lcmd         \* the command the loader was spawned with, [program |-> "none"] if none

sinkVars == <<target, imageLen, lcode, syncOk, hpc, sinkKind, stepResult, waitResult, ops,
              sent, lSt, lStatus, stdinOpen, inPipe, lcmd>>

\* the result links in base_dir, as builds and cleans leave them
VARIABLES
    links,       \* the names of the links present in base_dir
    hist         \* the two latest calls of build / clean, oldest first

artVars == <<links, hist>>

\* the choice of the output target of containerize
VARIABLES
    pathVar,     \* what reading PATH gives: unreadable, or its directories in order
    envName,     \* the name of the environment (sequence of characters)
    parseIn,     \* the string given to Runtime::from_str
    detectDone,  \* detect_or_default has returned
    detected,    \* the OutputTarget it returned
    parseDone,   \* Runtime::from_str has returned
    parsed       \* what it returned

selVars == <<pathVar, envName, parseIn, detectDone, detected, parseDone, parsed>>

\* one run of read_output_to_channel over a reader whose reads can fail
VARIABLES
    rdSrc,       \* what the reader still has to give: lines and failing reads
    rdRx,        \* TRUE while the receiver of the channel exists
    rdOut,       \* the events sent so far
    rdPc,        \* "next" at the loop head, "send" holding a line, "done" returned
    rdHeld,      \* the line the loop body holds
    rdWarn       \* the number of warnings logged, counted modulo WarnWrap

rdVars == <<rdSrc, rdRx, rdOut, rdPc, rdHeld, rdWarn>>

\* one call of NixCommandLine::run_in_nix or NixCommandLine::run
VARIABLES
    nixFn,       \* the function called: "run_in_nix" or "run"
    nixIn,       \* what the nix process does: spawnOk, code, out, err
    nixChild,    \* "unspawned", "running", "exited" or "reaped"
    nixPc,       \* "start", "wait" or "done"
    nixResult    \* the Result the call returned

nixVars == <<nixFn, nixIn, nixChild, nixPc, nixResult>>

\* one call of ToArgs::args
VARIABLES
    flagIn,      \* the receiver: its FLAG_TYPE, what its function yields, its Option wrapping
    flagDone,    \* TRUE once args has returned
    flagArgs     \* the arguments it returned

flagVars == <<flagIn, flagDone, flagArgs>>

\* everything that is not part of a build and its relay
otherVars == <<cleanVars, argVars, sinkVars, artVars, selVars, rdVars, nixVars, flagVars>>

vars == <<relayVars, otherVars>>

\* no clean has been called
CleanIdle ==
    /\ cprog = [stdout |-> <<>>, stderr |-> <<>>, code |-> "exit0"]
    /\ corphan = FALSE
    /\ cchildSt = "unspawned"
    /\ cchildStatus = "none"
    /\ cwrote = [s \in Streams |-> 0]
    /\ cpipe = [s \in Streams |-> <<>>]
    /\ cbuf = [s \in Streams |-> <<>>]
    /\ cspawnErr = "none"
    /\ clpc = "start"
    /\ cstatus = "none"
    /\ cleanResult = [kind |-> "none"]

\* no command line is under construction
ArgIdle ==
    /\ base_dir = <<>>
    /\ flox_env = <<>>
    /\ packages = <<>>
    /\ buildDone = FALSE
    /\ buildArgv = <<>>
    /\ cleanDone = FALSE
    /\ cleanArgv = <<>>
    /\ buildStdio = [stdin |-> "unset", stdout |-> "unset", stderr |-> "unset"]

\* no container is being written
SinkIdle ==
    /\ target = "file"
    /\ imageLen = 0
    /\ lcode = "exit0"
    /\ syncOk = TRUE
    /\ hpc = "start"
    /\ sinkKind = "none"
    /\ stepResult = [kind |-> "none"]
    /\ waitResult = "none"
    /\ ops = <<>>
    /\ sent = 0
    /\ lSt = "none"
    /\ lStatus = "none"
    /\ stdinOpen = FALSE
    /\ inPipe = 0
    /\ lcmd = [program |-> "none"]

\* nothing has been built
ArtIdle ==
    /\ links = {}
    /\ hist = <<>>

\* no output target is being chosen
SelIdle ==
    /\ pathVar = [ok |-> FALSE]
    /\ envName = <<>>
    /\ parseIn = ""
    /\ detectDone = FALSE
    /\ detected = [kind |-> "none"]
    /\ parseDone = FALSE
    /\ parsed = [kind |-> "none"]

\* read_output_to_channel is not running on its own
RdIdle ==
    /\ rdSrc = <<>>
    /\ rdRx = TRUE
    /\ rdOut = <<>>
    /\ rdPc = "done"
    /\ rdHeld = <<>>
    /\ rdWarn = 0

\* no nix command line is being run
NixIdle ==
    /\ nixFn = "run"
    /\ nixIn = [spawnOk |-> FALSE, code |-> "exit0", out |-> <<>>, err |-> <<>>]
    /\ nixChild = "unspawned"
    /\ nixPc = "done"
    /\ nixResult = [kind |-> "none"]

\* args is not being called
FlagIdle ==
    /\ flagIn = [flag |-> <<>>, ty |-> "Bool", elems |-> <<>>, opt |-> "plain"]
    /\ flagDone = TRUE
    /\ flagArgs = <<>>

OtherIdle == CleanIdle /\ ArgIdle /\ SinkIdle /\ ArtIdle /\ SelIdle /\ RdIdle /\ NixIdle /\ FlagIdle

\* ------------------------------------------------------------ pure helpers
\* the Output variant that tags the lines of a pipe
TagOf(s) == IF s = "stdout" THEN "Stdout" ELSE "Stderr"

\* variant: both reader threads are given Output::Stdout
mk_output_AllStdout(s, text) == [tag |-> "Stdout", text |-> text]

\* Output::Stdout / Output::Stderr, the constructor passed as mk_output
mk_output(s, text) == [tag |-> TagOf(s), text |-> text]

\* Output::Exit
ExitEvent(status) == [tag |-> "Exit", status |-> status]

\* BufRead::lines on one line: invalid UTF-8 is an error, a trailing CR is stripped
Decode(line) ==
    IF \E i \in 1..Len(line) : line[i] = BAD
    THEN [ok |-> FALSE, text |-> <<>>]
    ELSE IF Len(line) > 0 /\ line[Len(line)] = CR
         THEN [ok |-> TRUE, text |-> SubSeq(line, 1, Len(line) - 1)]
         ELSE [ok |-> TRUE, text |-> line]

\* the number of senders not yet dropped
LiveSenders == { n \in SenderNames : sender[n] \in {"build", "thread"} }

\* a read on the pipe would return end-of-stream
AtEof(s) == pipe[s] = <<>> /\ childSt \in {"exited", "reaped"} /\ ~orphan

\* Sender::send: appends unless the receiver is gone
SendOk == rcv # "dropped"

\* -------------------------------------------------------------------- Init
RelayInit(P) ==
    /\ prog \in P
    /\ orphan \in BOOLEAN
    /\ childSt = "unspawned"
    /\ childStatus = "none"
    /\ wrote = [s \in Streams |-> 0]
    /\ pipe = [s \in Streams |-> <<>>]
    /\ rdOpen = [s \in Streams |-> FALSE]
    /\ spawnErr = "none"
    /\ bpc = "start"
    /\ buildResult = [kind |-> "none"]
    /\ sender = [n \in SenderNames |-> "none"]
    /\ rcv = "none"
    /\ rpc = [s \in Streams |-> "notstarted"]
    /\ held = [s \in Streams |-> <<>>]
    /\ warned = [s \in Streams |-> 0]
    /\ wpc = "notstarted"
    /\ wstatus = "none"
    /\ chan = <<>>
    /\ cpc = "idle"
    /\ received = <<>>
    /\ nones = 0
    /\ racing = {}

InitWith(P) == RelayInit(P) /\ OtherIdle

Init == InitWith({ p \in Programs : Len(p.stdout) + Len(p.stderr) <= MaxLines })

\* ------------------------------------------------------- FloxBuildMk::build
\* ManifestBuilderError::CallBuilderError(#[source] std::io::Error)
CallBuilderError(e) == [kind |-> "Err", error |-> "CallBuilderError", source |-> e]

\* variant: the spawn error is recorded but build carries on
BuildSpawnFail_Swallow ==
    /\ bpc = "start"
    /\ spawnErr' \in OsErrors
    /\ childSt' = "spawnfailed"
    /\ bpc' = "spawned"
    /\ UNCHANGED <<prog, orphan, childStatus, wrote, pipe, rdOpen, buildResult>>
    /\ UNCHANGED <<chanVars, readerVars, waiterVars, consumerVars>>
    /\ UNCHANGED otherVars

\* command.spawn().map_err(CallBuilderError)?  -- the spawn fails
BuildSpawnFail ==
    /\ bpc = "start"
    /\ spawnErr' \in OsErrors
    /\ childSt' = "spawnfailed"
    /\ buildResult' = CallBuilderError(spawnErr')
    /\ bpc' = "returned"
    /\ UNCHANGED <<prog, orphan, childStatus, wrote, pipe, rdOpen>>
    /\ UNCHANGED <<chanVars, readerVars, waiterVars, consumerVars>>
    /\ UNCHANGED otherVars

\* command.spawn() succeeds: the child runs, its two pipes exist
BuildSpawnOk ==
    /\ bpc = "start"
    /\ childSt' = "running"
    /\ rdOpen' = [s \in Streams |-> TRUE]
    /\ bpc' = "spawned"
    /\ UNCHANGED <<prog, orphan, childStatus, wrote, pipe, spawnErr, buildResult>>
    /\ UNCHANGED <<chanVars, readerVars, waiterVars, consumerVars>>
    /\ UNCHANGED otherVars

\* let (sender, receiver) = channel(); two clones and the original
BuildChannel ==
    /\ bpc = "spawned"
    /\ sender' = [n \in SenderNames |-> "build"]
    /\ rcv' = "build"
    /\ chan' = <<>>
    /\ bpc' = "channel"
    /\ UNCHANGED <<childVars, spawnErr, buildResult, readerVars, waiterVars, consumerVars>>
    /\ UNCHANGED otherVars

\* thread::spawn of a line-reading thread: the pipe and its sender move into it
BuildSpawnReader(s) ==
    /\ bpc = (IF s = "stdout" THEN "channel" ELSE "stdout_started")
    /\ rpc' = [rpc EXCEPT ![s] = "read"]
    /\ sender' = [sender EXCEPT ![SenderOf(s)] = "thread"]
    /\ bpc' = (IF s = "stdout" THEN "stdout_started" ELSE "stderr_started")
    /\ UNCHANGED <<childVars, spawnErr, buildResult, rcv, chan, held, warned, waiterVars, consumerVars>>
    /\ UNCHANGED otherVars

\* variant: the exit waiter is given a further clone, build keeps the sender
BuildSpawnWaiter_KeepSender ==
    /\ bpc = "stderr_started"
    /\ wpc' = "wait"
    /\ bpc' = "waiter_started"
    /\ UNCHANGED <<childVars, spawnErr, buildResult, sender, rcv, chan, readerVars, wstatus, racing,
                   consumerVars>>
    /\ UNCHANGED otherVars

\* thread::spawn of the exit waiter: the child and the last sender move into it
BuildSpawnWaiter ==
    /\ bpc = "stderr_started"
    /\ wpc' = "wait"
    /\ sender' = [sender EXCEPT !["command_status_sender"] = "thread"]
    /\ bpc' = "waiter_started"
    /\ UNCHANGED <<childVars, spawnErr, buildResult, rcv, chan, readerVars, wstatus, racing, consumerVars>>
    /\ UNCHANGED otherVars

\* variant: build joins the exit-waiter thread before it returns
BuildReturn_Join ==
    /\ bpc = "waiter_started"
    /\ wpc = "done"
    /\ buildResult' = [kind |-> "Ok"]
    /\ rcv' = "consumer"
    /\ cpc' = "pulling"
    /\ bpc' = "returned"
    /\ UNCHANGED <<childVars, spawnErr, sender, chan, readerVars, waiterVars, received, nones>>
    /\ UNCHANGED otherVars

\* Ok(BuildOutput { receiver })
BuildReturn ==
    /\ bpc = "waiter_started"
    /\ buildResult' = [kind |-> "Ok"]
    /\ rcv' = "consumer"
    /\ cpc' = "pulling"
    /\ bpc' = "returned"
    /\ UNCHANGED <<childVars, spawnErr, sender, chan, readerVars, waiterVars, received, nones>>
    /\ UNCHANGED otherVars

\* ------------------------------------------------------- the child process
\* the child writes its next line to a pipe; it blocks while the pipe is full,
\* and a write to a pipe without reader either kills it (SIGPIPE) or fails (EPIPE)
ChildWrite(s) ==
    /\ childSt = "running"
    /\ wrote[s] < Len(prog[s])
    /\ \/ /\ rdOpen[s]
          /\ Len(pipe[s]) < PipeCap
          /\ pipe' = [pipe EXCEPT ![s] = Append(@, prog[s][wrote[s] + 1])]
          /\ wrote' = [wrote EXCEPT ![s] = @ + 1]
          /\ UNCHANGED <<childSt, childStatus>>
       \/ /\ ~rdOpen[s]
          /\ childSt' = "exited"
          /\ childStatus' = SigPipe
          /\ UNCHANGED <<pipe, wrote>>
       \/ /\ ~rdOpen[s]
          /\ wrote' = [wrote EXCEPT ![s] = @ + 1]
          /\ UNCHANGED <<pipe, childSt, childStatus>>
    /\ UNCHANGED <<prog, orphan, rdOpen>>
    /\ UNCHANGED <<buildVars, chanVars, readerVars, waiterVars, consumerVars>>
    /\ UNCHANGED otherVars

\* the child has written everything and exits with its code
ChildExit ==
    /\ childSt = "running"
    /\ \A s \in Streams : wrote[s] = Len(prog[s])
    /\ childSt' = "exited"
    /\ childStatus' = prog.code
    /\ UNCHANGED <<prog, orphan, wrote, pipe, rdOpen>>
    /\ UNCHANGED <<buildVars, chanVars, readerVars, waiterVars, consumerVars>>
    /\ UNCHANGED otherVars

\* the last descendant holding the pipes' write ends goes away
OrphanExit ==
    /\ orphan
    /\ childSt \in {"exited", "reaped"}
    /\ orphan' = FALSE
    /\ UNCHANGED <<prog, childSt, childStatus, wrote, pipe, rdOpen>>
    /\ UNCHANGED <<buildVars, chanVars, readerVars, waiterVars, consumerVars>>
    /\ UNCHANGED otherVars

\* -------------------------------------------------- read_output_to_channel
\* variant: the pipes are drained one after the other, stderr only once the
\* stdout reader has finished
ReaderRead_Sequential(s) ==
    /\ rpc[s] = "read"
    /\ s = "stderr" => rpc["stdout"] = "done"
    /\ \/ /\ pipe[s] # <<>>
          /\ pipe' = [pipe EXCEPT ![s] = Tail(@)]
          /\ LET line == Decode(Head(pipe[s]))
             IN  IF line.ok
                 THEN /\ held' = [held EXCEPT ![s] = line.text]
                      /\ rpc' = [rpc EXCEPT ![s] = "send"]
                      /\ UNCHANGED warned
                 ELSE /\ warned' = [warned EXCEPT ![s] = @ + 1]
                      /\ UNCHANGED <<held, rpc>>
          /\ UNCHANGED <<sender, rdOpen>>
       \/ /\ AtEof(s)
          /\ rpc' = [rpc EXCEPT ![s] = "done"]
          /\ sender' = [sender EXCEPT ![SenderOf(s)] = "dropped"]
          /\ rdOpen' = [rdOpen EXCEPT ![s] = FALSE]
          /\ UNCHANGED <<pipe, held, warned>>
    /\ UNCHANGED <<prog, orphan, childSt, childStatus, wrote>>
    /\ UNCHANGED <<buildVars, rcv, chan, waiterVars, consumerVars>>
    /\ UNCHANGED otherVars

\* variant: a reader that meets end-of-stream waits on the child itself
ReaderRead_ReapAtEof(s) ==
    /\ rpc[s] = "read"
    /\ \/ /\ pipe[s] # <<>>
          /\ pipe' = [pipe EXCEPT ![s] = Tail(@)]
          /\ LET line == Decode(Head(pipe[s]))
             IN  IF line.ok
                 THEN /\ held' = [held EXCEPT ![s] = line.text]
                      /\ rpc' = [rpc EXCEPT ![s] = "send"]
                      /\ UNCHANGED warned
                 ELSE /\ warned' = [warned EXCEPT ![s] = @ + 1]
                      /\ UNCHANGED <<held, rpc>>
          /\ UNCHANGED <<sender, rdOpen, childSt>>
       \/ /\ AtEof(s)
          /\ rpc' = [rpc EXCEPT ![s] = "done"]
          /\ sender' = [sender EXCEPT ![SenderOf(s)] = "dropped"]
          /\ rdOpen' = [rdOpen EXCEPT ![s] = FALSE]
          /\ childSt' = "reaped"
          /\ UNCHANGED <<pipe, held, warned>>
    /\ UNCHANGED <<prog, orphan, childStatus, wrote>>
    /\ UNCHANGED <<buildVars, rcv, chan, waiterVars, consumerVars>>
    /\ UNCHANGED otherVars

\* variant: a line that cannot be decoded ends the loop of the reader
ReaderRead_StopOnError(s) ==
    /\ rpc[s] = "read"
    /\ \/ /\ pipe[s] # <<>>
          /\ pipe' = [pipe EXCEPT ![s] = Tail(@)]
          /\ LET line == Decode(Head(pipe[s]))
             IN  IF line.ok
                 THEN /\ held' = [held EXCEPT ![s] = line.text]
                      /\ rpc' = [rpc EXCEPT ![s] = "send"]
                      /\ UNCHANGED <<warned, sender, rdOpen>>
                 ELSE /\ warned' = [warned EXCEPT ![s] = @ + 1]
                      /\ rpc' = [rpc EXCEPT ![s] = "done"]
                      /\ sender' = [sender EXCEPT ![SenderOf(s)] = "dropped"]
                      /\ rdOpen' = [rdOpen EXCEPT ![s] = FALSE]
                      /\ UNCHANGED held
       \/ /\ AtEof(s)
          /\ rpc' = [rpc EXCEPT ![s] = "done"]
          /\ sender' = [sender EXCEPT ![SenderOf(s)] = "dropped"]
          /\ rdOpen' = [rdOpen EXCEPT ![s] = FALSE]
          /\ UNCHANGED <<pipe, held, warned>>
    /\ UNCHANGED <<prog, orphan, childSt, childStatus, wrote>>
    /\ UNCHANGED <<buildVars, rcv, chan, waiterVars, consumerVars>>
    /\ UNCHANGED otherVars

\* for line in reader.lines(): the next line, or the end of the loop at EOF
ReaderRead(s) ==
    /\ rpc[s] = "read"
    /\ \/ /\ pipe[s] # <<>>
          /\ pipe' = [pipe EXCEPT ![s] = Tail(@)]
          /\ LET line == Decode(Head(pipe[s]))
             IN  IF line.ok
                 THEN /\ held' = [held EXCEPT ![s] = line.text]
                      /\ rpc' = [rpc EXCEPT ![s] = "send"]
                      /\ UNCHANGED warned
                 ELSE /\ warned' = [warned EXCEPT ![s] = @ + 1]
                      /\ UNCHANGED <<held, rpc>>
          /\ UNCHANGED <<sender, rdOpen>>
       \/ /\ AtEof(s)
          /\ rpc' = [rpc EXCEPT ![s] = "done"]
          /\ sender' = [sender EXCEPT ![SenderOf(s)] = "dropped"]
          /\ rdOpen' = [rdOpen EXCEPT ![s] = FALSE]
          /\ UNCHANGED <<pipe, held, warned>>
    /\ UNCHANGED <<prog, orphan, childSt, childStatus, wrote>>
    /\ UNCHANGED <<buildVars, rcv, chan, waiterVars, consumerVars>>
    /\ UNCHANGED otherVars

\* variant: a failed send is ignored and the loop goes on reading
ReaderSend_IgnoreError(s) ==
    /\ rpc[s] = "send"
    /\ chan' = IF SendOk THEN Append(chan, mk_output(s, held[s])) ELSE chan
    /\ rpc' = [rpc EXCEPT ![s] = "read"]
    /\ held' = [held EXCEPT ![s] = <<>>]
    /\ UNCHANGED <<prog, orphan, childSt, childStatus, wrote, pipe, rdOpen>>
    /\ UNCHANGED <<buildVars, sender, rcv, warned, waiterVars, consumerVars>>
    /\ UNCHANGED otherVars

\* let Ok(_) = sender.send(mk_output(line)) else { break };
ReaderSend(s) ==
    /\ rpc[s] = "send"
    /\ IF SendOk
       THEN /\ chan' = Append(chan, mk_output(s, held[s]))
            /\ rpc' = [rpc EXCEPT ![s] = "read"]
            /\ UNCHANGED <<sender, rdOpen>>
       ELSE /\ rpc' = [rpc EXCEPT ![s] = "done"]
            /\ sender' = [sender EXCEPT ![SenderOf(s)] = "dropped"]
            /\ rdOpen' = [rdOpen EXCEPT ![s] = FALSE]
            /\ UNCHANGED chan
    /\ held' = [held EXCEPT ![s] = <<>>]
    /\ UNCHANGED <<prog, orphan, childSt, childStatus, wrote, pipe>>
    /\ UNCHANGED <<buildVars, rcv, warned, waiterVars, consumerVars>>
    /\ UNCHANGED otherVars

\* ------------------------------------------------------ exit-waiter thread
\* variant: the status returned by wait is replaced by a success status
WaiterWait_LoseStatus ==
    /\ wpc = "wait"
    /\ childSt = "exited"
    /\ childSt' = "reaped"
    /\ wstatus' = "exit0"
    /\ wpc' = "send"
    /\ UNCHANGED <<prog, orphan, childStatus, wrote, pipe, rdOpen>>
    /\ UNCHANGED <<buildVars, chanVars, readerVars, racing, consumerVars>>
    /\ UNCHANGED otherVars

\* variant: the waiter waits on the child only after both readers finished
WaiterWait_AfterReaders ==
    /\ wpc = "wait"
    /\ \A s \in Streams : rpc[s] = "done"
    /\ childSt = "exited"
    /\ childSt' = "reaped"
    /\ wstatus' = childStatus
    /\ wpc' = "send"
    /\ UNCHANGED <<prog, orphan, childStatus, wrote, pipe, rdOpen>>
    /\ UNCHANGED <<buildVars, chanVars, readerVars, racing, consumerVars>>
    /\ UNCHANGED otherVars

\* let status = child.wait().expect(..): returns once the child has exited
WaiterWait ==
    /\ wpc = "wait"
    /\ childSt = "exited"
    /\ childSt' = "reaped"
    /\ wstatus' = childStatus
    /\ wpc' = "send"
    /\ UNCHANGED <<prog, orphan, childStatus, wrote, pipe, rdOpen>>
    /\ UNCHANGED <<buildVars, chanVars, readerVars, racing, consumerVars>>
    /\ UNCHANGED otherVars

\* variant: the thread ends without sending Output::Exit
WaiterSend_NoExit ==
    /\ wpc = "send"
    /\ racing' = { s \in Streams : rpc[s] # "done" }
    /\ sender' = [sender EXCEPT !["command_status_sender"] = "dropped"]
    /\ wpc' = "done"
    /\ UNCHANGED <<childVars, buildVars, rcv, chan, readerVars, wstatus, consumerVars>>
    /\ UNCHANGED otherVars

\* variant: Output::Exit is put in front of the events already in the channel
WaiterSend_Front ==
    /\ wpc = "send"
    /\ chan' = IF SendOk THEN <<ExitEvent(wstatus)>> \o chan ELSE chan
    /\ racing' = { s \in Streams : rpc[s] # "done" }
    /\ sender' = [sender EXCEPT !["command_status_sender"] = "dropped"]
    /\ wpc' = "done"
    /\ UNCHANGED <<childVars, buildVars, rcv, readerVars, wstatus, consumerVars>>
    /\ UNCHANGED otherVars

\* variant: the thread sends Output::Exit but never lets go of its sender
WaiterSend_KeepSender ==
    /\ wpc = "send"
    /\ chan' = IF SendOk THEN Append(chan, ExitEvent(wstatus)) ELSE chan
    /\ racing' = { s \in Streams : rpc[s] # "done" }
    /\ wpc' = "done"
    /\ UNCHANGED <<childVars, buildVars, sender, rcv, readerVars, wstatus, consumerVars>>
    /\ UNCHANGED otherVars

\* let _ = command_status_sender.send(Output::Exit(status)); the thread ends
WaiterSend ==
    /\ wpc = "send"
    /\ chan' = IF SendOk THEN Append(chan, ExitEvent(wstatus)) ELSE chan
    /\ racing' = { s \in Streams : rpc[s] # "done" }
    /\ sender' = [sender EXCEPT !["command_status_sender"] = "dropped"]
    /\ wpc' = "done"
    /\ UNCHANGED <<childVars, buildVars, rcv, readerVars, wstatus, consumerVars>>
    /\ UNCHANGED otherVars

\* ------------------------------------------------------------ the consumer
\* variant: next() takes the newest event of the channel instead of the oldest
ConsumerNext_Lifo ==
    /\ cpc \in {"pulling", "exhausted"}
    /\ \/ /\ chan # <<>>
          /\ received' = Append(received, chan[Len(chan)])
          /\ chan' = SubSeq(chan, 1, Len(chan) - 1)
          /\ UNCHANGED <<cpc, nones>>
       \/ /\ chan = <<>>
          /\ LiveSenders = {}
          /\ nones <= MaxNone
          /\ nones' = nones + 1
          /\ cpc' = "exhausted"
          /\ UNCHANGED <<received, chan>>
    /\ UNCHANGED <<childVars, buildVars, sender, rcv, readerVars, waiterVars>>
    /\ UNCHANGED otherVars

\* variant: next() does not block, it returns None whenever the channel is empty
ConsumerNext_TryRecv ==
    /\ cpc \in {"pulling", "exhausted"}
    /\ \/ /\ chan # <<>>
          /\ received' = Append(received, Head(chan))
          /\ chan' = Tail(chan)
          /\ UNCHANGED <<cpc, nones>>
       \/ /\ chan = <<>>
          /\ nones <= MaxNone
          /\ nones' = nones + 1
          /\ cpc' = "exhausted"
          /\ UNCHANGED <<received, chan>>
    /\ UNCHANGED <<childVars, buildVars, sender, rcv, readerVars, waiterVars>>
    /\ UNCHANGED otherVars

\* variant: after None has been returned once, a further call blocks for ever
ConsumerNext_BlockAfterNone ==
    /\ cpc \in {"pulling", "exhausted"}
    /\ \/ /\ chan # <<>>
          /\ received' = Append(received, Head(chan))
          /\ chan' = Tail(chan)
          /\ UNCHANGED <<cpc, nones>>
       \/ /\ chan = <<>>
          /\ LiveSenders = {}
          /\ cpc = "pulling"
          /\ nones <= MaxNone
          /\ nones' = nones + 1
          /\ cpc' = "exhausted"
          /\ UNCHANGED <<received, chan>>
    /\ UNCHANGED <<childVars, buildVars, sender, rcv, readerVars, waiterVars>>
    /\ UNCHANGED otherVars

\* BuildOutput::next: self.receiver.recv().ok()
ConsumerNext ==
    /\ cpc \in {"pulling", "exhausted"}
    /\ \/ /\ chan # <<>>
          /\ received' = Append(received, Head(chan))
          /\ chan' = Tail(chan)
          /\ UNCHANGED <<cpc, nones>>
       \/ /\ chan = <<>>
          /\ LiveSenders = {}
          /\ nones <= MaxNone
          /\ nones' = nones + 1
          /\ cpc' = "exhausted"
          /\ UNCHANGED <<received, chan>>
    /\ UNCHANGED <<childVars, buildVars, sender, rcv, readerVars, waiterVars>>
    /\ UNCHANGED otherVars

\* the consumer drops BuildOutput before it is exhausted
ConsumerDrop ==
    /\ cpc = "pulling"
    /\ cpc' = "dropped"
    /\ rcv' = "dropped"
    /\ chan' = <<>>
    /\ UNCHANGED <<childVars, buildVars, sender, readerVars, waiterVars, received, nones>>
    /\ UNCHANGED otherVars

\* ---------------------------------------------------------- specification
Next ==
    \/ BuildSpawnFail
    \/ BuildSpawnOk
    \/ BuildChannel
    \/ \E s \in Streams : BuildSpawnReader(s)
    \/ BuildSpawnWaiter
    \/ BuildReturn
    \/ \E s \in Streams : ChildWrite(s)
    \/ ChildExit
    \/ OrphanExit
    \/ \E s \in Streams : ReaderRead(s)
    \/ \E s \in Streams : ReaderSend(s)
    \/ WaiterWait
    \/ WaiterSend
    \/ ConsumerNext
    \/ ConsumerDrop

Spec == Init /\ [][Next]_vars

TypeOK ==
    /\ childSt \in {"unspawned", "spawnfailed", "running", "exited", "reaped"}
    /\ childStatus \in ExitCodes \cup {SigPipe, "none"}
    /\ \A s \in Streams : Len(pipe[s]) <= PipeCap
    /\ rcv \in {"none", "build", "consumer", "dropped"}
    /\ cpc \in {"idle", "pulling", "exhausted", "dropped"}

\* ------------------------------------------- specification with scheduling
\* programs of decodable lines only, used where behaviours are checked
FairLineSet == { <<"a">> }

FairPrograms ==
    { [stdout |-> o, stderr |-> e, code |-> c] :
        o \in SeqUpTo(FairLineSet, MaxLines), e \in SeqUpTo(FairLineSet, MaxLines),
        c \in ExitCodes }

FairInit == InitWith({ p \in FairPrograms : Len(p.stdout) + Len(p.stderr) <= MaxLines })

\* OS threads and the child process are scheduled preemptively: a step that
\* stays possible is eventually taken.  The consumer is not obliged to drop
\* the sequence, and a descendant holding the pipes is not obliged to exit.
RelayFairness ==
    /\ WF_vars(BuildSpawnFail \/ BuildSpawnOk)
    /\ WF_vars(BuildChannel)
    /\ \A s \in Streams : WF_vars(BuildSpawnReader(s))
    /\ WF_vars(BuildSpawnWaiter)
    /\ WF_vars(BuildReturn)
    /\ \A s \in Streams : WF_vars(ChildWrite(s))
    /\ WF_vars(ChildExit)
    /\ \A s \in Streams : WF_vars(ReaderRead(s))
    /\ \A s \in Streams : WF_vars(ReaderSend(s))
    /\ WF_vars(WaiterWait)
    /\ WF_vars(WaiterSend)

\* the consumer keeps pulling as well
Fairness == RelayFairness /\ WF_vars(ConsumerNext)

FairSpec == FairInit /\ [][Next]_vars /\ Fairness

\* the relay and the child are scheduled, the consumer may hold the sequence
\* without ever pulling from it
HoldSpec == FairInit /\ [][Next]_vars /\ RelayFairness

\* ---------------------------------------------------- observation helpers
\* the events of a sequence that carry the given tag
RECURSIVE WithTag(_, _)
WithTag(q, tag) ==
    IF q = <<>> THEN <<>>
    ELSE IF Head(q).tag = tag
         THEN <<Head(q)>> \o WithTag(Tail(q), tag)
         ELSE WithTag(Tail(q), tag)

\* the texts of the events of one stream, in order
RECURSIVE TextsOf(_, _)
TextsOf(q, s) ==
    IF q = <<>> THEN <<>>
    ELSE IF Head(q).tag = TagOf(s)
         THEN <<Head(q).text>> \o TextsOf(Tail(q), s)
         ELSE TextsOf(Tail(q), s)

\* what the decodable lines of a written sequence decode to, in order
RECURSIVE DecodedLines(_)
DecodedLines(q) ==
    IF q = <<>> THEN <<>>
    ELSE IF Decode(Head(q)).ok
         THEN <<Decode(Head(q)).text>> \o DecodedLines(Tail(q))
         ELSE DecodedLines(Tail(q))

IsPrefix(p, q) == Len(p) <= Len(q) /\ SubSeq(q, 1, Len(p)) = p

\* the pipe an event came from
StreamOfTag(tag) == IF tag = "Stdout" THEN "stdout" ELSE "stderr"

\* the consumer has drained the sequence: next() has returned None
Drained == nones > 0

\* -------------------------------------------------------------------- C1
\* C1: a consumer that pulls until next() returns None has received exactly
\* one Output::Exit event, in every interleaving of the three relay threads.
C1_ExactlyOneExit == Drained => Len(WithTag(received, "Exit")) = 1

C1_Witness ==
    /\ Drained
    /\ Len(WithTag(received, "Exit")) = 1
    /\ Len(received) = 3

\* -------------------------------------------------------------------- C2
\* C2 as stated: no Output::Stdout or Output::Stderr event is yielded after
\* Output::Exit, i.e. an Exit event that has been yielded is the last one.
C2_ExitAlwaysLast ==
    \A i \in 1..Len(received) : received[i].tag = "Exit" => i = Len(received)

\* C2 amended: the events yielded after Output::Exit are lines of a reader
\* thread that was still running when the exit waiter sent Output::Exit; when
\* both readers had finished before that send, Output::Exit is the last event.
C2_ExitLastUnlessRacing ==
    \A i, j \in 1..Len(received) :
        (i < j /\ received[i].tag = "Exit") =>
            /\ received[j].tag # "Exit"
            /\ StreamOfTag(received[j].tag) \in racing

C2_Witness ==
    /\ Drained
    /\ racing = {}
    /\ Len(received) = 3
    /\ received[3].tag = "Exit"

\* -------------------------------------------------------------------- C3
\* C3: for a child that exits with status 0, a full drain yields as many
\* Stdout events as decodable lines written to stdout, as many Stderr events
\* as decodable lines written to stderr, each carrying a line of its own
\* pipe, and exactly one Exit event, with a success status.
C3_FullDrainCounts ==
    (Drained /\ prog.code = "exit0") =>
        /\ \A s \in Streams :
            /\ Len(TextsOf(received, s)) = Len(DecodedLines(prog[s]))
            /\ \A i \in 1..Len(TextsOf(received, s)) :
                \E k \in 1..Len(prog[s]) :
                    Decode(prog[s][k]) = [ok |-> TRUE, text |-> TextsOf(received, s)[i]]
        /\ WithTag(received, "Exit") = <<ExitEvent("exit0")>>
        /\ Success(WithTag(received, "Exit")[1].status)

C3_Witness ==
    /\ Drained
    /\ prog.code = "exit0"
    /\ Len(TextsOf(received, "stdout")) = 2
    /\ Len(TextsOf(received, "stderr")) = 1

\* -------------------------------------------------------------------- C4
\* C4: per-stream order is preserved: at every moment the lines received
\* from one pipe are, in order, an initial part of the decodable lines the
\* child writes to that pipe.
C4_PerStreamOrder ==
    \A s \in Streams : IsPrefix(TextsOf(received, s), DecodedLines(prog[s]))

C4_Witness ==
    /\ TextsOf(received, "stdout") = << <<"a">>, <<"b">> >>
    /\ Len(TextsOf(received, "stderr")) = 1

\* -------------------------------------------------------------------- C5
\* C5: next() has returned None only if Output::Exit was sent, the three
\* relay threads have finished and dropped their senders, and no sent event
\* is still undelivered.
C5_NoneOnlyWhenClosed ==
    Drained =>
        /\ LiveSenders = {}
        /\ \A s \in Streams : rpc[s] = "done"
        /\ wpc = "done"
        /\ chan = <<>>
        /\ \E i \in 1..Len(received) : received[i].tag = "Exit"

C5_Witness ==
    /\ Drained
    /\ LiveSenders = {}
    /\ wpc = "done"
    /\ Len(received) >= 2

\* -------------------------------------------------------------------- C6
\* C6: once the child has terminated and both pipes can reach end-of-stream,
\* a consumer that keeps pulling eventually receives None.
C6_EventuallyNone ==
    (childSt \in {"exited", "reaped"} /\ ~orphan /\ cpc = "pulling")
        ~> (Drained \/ cpc = "dropped")

C6_Witness ==
    /\ Drained
    /\ childSt = "reaped"
    /\ ~orphan
    /\ Len(received) = 4

\* -------------------------------------------------------------------- C7
\* C7: when the spawn succeeds build returns Ok whatever the child's exit
\* status, and the status carried by Output::Exit is the status the child
\* ended with, as returned by waiting on it.
C7_FailureIsData ==
    /\ (bpc = "returned" /\ childSt # "spawnfailed") => buildResult = [kind |-> "Ok"]
    /\ \A i \in 1..Len(received \o chan) :
        (received \o chan)[i].tag = "Exit" =>
            /\ childSt = "reaped"
            /\ (received \o chan)[i].status = childStatus
            /\ (received \o chan)[i].status = wstatus

C7_Witness ==
    /\ Drained
    /\ buildResult = [kind |-> "Ok"]
    /\ \E i \in 1..Len(received) : received[i] = ExitEvent("exit1")

\* -------------------------------------------------------------------- C8
\* C8: build returns an error exactly when the spawn fails; the error is
\* CallBuilderError wrapping the OS error, and then there is no channel, no
\* relay thread and no event.
C8_ErrIffSpawnFails ==
    /\ bpc = "returned" => (buildResult.kind = "Err" <=> childSt = "spawnfailed")
    /\ bpc # "returned" => buildResult.kind = "none"
    /\ childSt = "spawnfailed" =>
        /\ spawnErr \in OsErrors
        /\ buildResult = CallBuilderError(spawnErr)
        /\ buildResult.error = "CallBuilderError"
        /\ rcv = "none"
        /\ \A n \in SenderNames : sender[n] = "none"
        /\ \A s \in Streams : rpc[s] = "notstarted"
        /\ wpc = "notstarted"
        /\ chan = <<>> /\ received = <<>>
        /\ cpc = "idle"

C8_Witness ==
    /\ bpc = "returned"
    /\ childSt = "spawnfailed"
    /\ buildResult = CallBuilderError("ENOENT")

\* -------------------------------------------------------------------- C9
\* C9: after the consumer has dropped BuildOutput no send blocks: a reader
\* that attempts a send finishes at that attempt without sending the line,
\* nothing is added to the channel, and the exit waiter's failed send is
\* ignored so that it finishes too.
C9_StopAtFirstSendAfterDrop ==
    /\ [][ rcv = "dropped" =>
            /\ chan' = chan
            /\ \A s \in Streams :
                (rpc[s] = "send" /\ rpc'[s] # rpc[s]) => rpc'[s] = "done"
            /\ \A s \in Streams : rpc[s] = "done" => rpc'[s] = "done" ]_vars
    /\ \A s \in Streams : (rcv = "dropped" /\ rpc[s] = "send") ~> (rpc[s] = "done")
    /\ (rcv = "dropped" /\ wpc = "send") ~> (wpc = "done")

C9_Witness ==
    /\ cpc = "dropped"
    /\ rpc["stdout"] = "done"
    /\ wpc = "done"
    /\ wrote["stdout"] = 1
    /\ Len(prog["stdout"]) = 3
    /\ received = <<>>

\* ------------------------------------------------------------------- C10
\* C10: after the consumer has dropped BuildOutput, at whatever point, the
\* exit waiter's wait on the child eventually returns.
C10_ReapedAfterDrop == (cpc = "dropped") ~> (childSt = "reaped")

C10_Witness ==
    /\ cpc = "dropped"
    /\ childSt = "reaped"
    /\ \A s \in Streams : ~rdOpen[s]
    /\ wstatus = SigPipe

\* ------------------------------------------------------------------- C11
\* C11: with bounded pipes, a child that writes a finite amount to stdout
\* and stderr in any interleaving is never blocked for ever on a pipe write:
\* it always comes to its end, whether or not the consumer pulls.
C11_ChildNeverStuck == (childSt = "running") ~> (childSt \in {"exited", "reaped"})

C11_Witness ==
    /\ childSt = "reaped"
    /\ childStatus \in ExitCodes
    /\ wrote["stderr"] = 2
    /\ wrote["stdout"] = 1
    /\ cpc = "pulling"
    /\ received = <<>>
    /\ Len(chan) = 4

\* ======================================================= FloxBuildMk::clean
notCleanVars == <<relayVars, argVars, sinkVars, artVars, selVars, rdVars, nixVars, flagVars>>

NL == "\\n"

\* U+FFFD REPLACEMENT CHARACTER
REPLACEMENT == "U+FFFD"

\* the bytes of a written line, with its newline
Chunk(line) == line \o <<NL>>

\* the bytes of a sequence of written lines
RECURSIVE Bytes(_)
Bytes(q) == IF q = <<>> THEN <<>> ELSE Chunk(Head(q)) \o Bytes(Tail(q))

\* String::from_utf8_lossy(..).to_string(): invalid bytes become U+FFFD
from_utf8_lossy(bytes) ==
    [i \in 1..Len(bytes) |-> IF bytes[i] = BAD THEN REPLACEMENT ELSE bytes[i]]

\* ManifestBuilderError::RunClean { stdout, stderr, status }
RunClean(out, err, status) ==
    [kind |-> "Err", error |-> "RunClean", stdout |-> out, stderr |-> err, status |-> status]

CleanInit ==
    /\ cprog \in { p \in Programs : Len(p.stdout) + Len(p.stderr) <= MaxLines }
    /\ corphan \in BOOLEAN
    /\ cchildSt = "unspawned"
    /\ cchildStatus = "none"
    /\ cwrote = [s \in Streams |-> 0]
    /\ cpipe = [s \in Streams |-> <<>>]
    /\ cbuf = [s \in Streams |-> <<>>]
    /\ cspawnErr = "none"
    /\ clpc = "start"
    /\ cstatus = "none"
    /\ cleanResult = [kind |-> "none"]

\* command.output().map_err(CallBuilderError)?  -- the spawn fails
CleanSpawnFail ==
    /\ clpc = "start"
    /\ cspawnErr' \in OsErrors
    /\ cchildSt' = "spawnfailed"
    /\ cleanResult' = CallBuilderError(cspawnErr')
    /\ clpc' = "returned"
    /\ UNCHANGED <<cprog, corphan, cchildStatus, cwrote, cpipe, cbuf, cstatus>>
    /\ UNCHANGED notCleanVars

\* command.output(): the driver is spawned with piped stdout and stderr
CleanSpawnOk ==
    /\ clpc = "start"
    /\ cchildSt' = "running"
    /\ clpc' = "collecting"
    /\ UNCHANGED <<cprog, corphan, cchildStatus, cwrote, cpipe, cbuf, cspawnErr, cstatus,
                   cleanResult>>
    /\ UNCHANGED notCleanVars

\* the driver writes its next line to a pipe, blocking while the pipe is full
CleanChildWrite(s) ==
    /\ cchildSt = "running"
    /\ cwrote[s] < Len(cprog[s])
    /\ Len(cpipe[s]) < PipeCap
    /\ cpipe' = [cpipe EXCEPT ![s] = Append(@, Chunk(cprog[s][cwrote[s] + 1]))]
    /\ cwrote' = [cwrote EXCEPT ![s] = @ + 1]
    /\ UNCHANGED <<cprog, corphan, cchildSt, cchildStatus, cbuf, cspawnErr, clpc, cstatus,
                   cleanResult>>
    /\ UNCHANGED notCleanVars

\* the driver has written everything and exits with its code
CleanChildExit ==
    /\ cchildSt = "running"
    /\ \A s \in Streams : cwrote[s] = Len(cprog[s])
    /\ cchildSt' = "exited"
    /\ cchildStatus' = cprog.code
    /\ UNCHANGED <<cprog, corphan, cwrote, cpipe, cbuf, cspawnErr, clpc, cstatus, cleanResult>>
    /\ UNCHANGED notCleanVars

\* the last descendant holding the pipes' write ends goes away
CleanOrphanExit ==
    /\ corphan
    /\ cchildSt \in {"exited", "reaped"}
    /\ corphan' = FALSE
    /\ UNCHANGED <<cprog, cchildSt, cchildStatus, cwrote, cpipe, cbuf, cspawnErr, clpc, cstatus,
                   cleanResult>>
    /\ UNCHANGED notCleanVars

\* command.output(): both pipes are read concurrently into their buffers
CleanCollect(s) ==
    /\ clpc = "collecting"
    /\ cpipe[s] # <<>>
    /\ cbuf' = [cbuf EXCEPT ![s] = @ \o Head(cpipe[s])]
    /\ cpipe' = [cpipe EXCEPT ![s] = Tail(@)]
    /\ UNCHANGED <<cprog, corphan, cchildSt, cchildStatus, cwrote, cspawnErr, clpc, cstatus,
                   cleanResult>>
    /\ UNCHANGED notCleanVars

\* a read on the driver's pipe would return end-of-stream
CleanAtEof(s) == cpipe[s] = <<>> /\ cchildSt \in {"exited", "reaped"} /\ ~corphan

\* variant: the status is taken as soon as the driver has exited, whatever is
\* still unread in its pipes
CleanWait_NoDrain ==
    /\ clpc = "collecting"
    /\ cchildSt = "exited"
    /\ cchildSt' = "reaped"
    /\ cstatus' = cchildStatus
    /\ clpc' = "waited"
    /\ UNCHANGED <<cprog, corphan, cchildStatus, cwrote, cpipe, cbuf, cspawnErr, cleanResult>>
    /\ UNCHANGED notCleanVars

\* command.output(): after both pipes reached end-of-stream, wait for the driver
CleanWait ==
    /\ clpc = "collecting"
    /\ \A s \in Streams : CleanAtEof(s)
    /\ cchildSt = "exited"
    /\ cchildSt' = "reaped"
    /\ cstatus' = cchildStatus
    /\ clpc' = "waited"
    /\ UNCHANGED <<cprog, corphan, cchildStatus, cwrote, cpipe, cbuf, cspawnErr, cleanResult>>
    /\ UNCHANGED notCleanVars

\* variant: the exit status is not looked at
CleanReturn_IgnoreStatus ==
    /\ clpc = "waited"
    /\ cleanResult' = [kind |-> "Ok"]
    /\ clpc' = "returned"
    /\ UNCHANGED <<cprog, corphan, cchildSt, cchildStatus, cwrote, cpipe, cbuf, cspawnErr,
                   cstatus>>
    /\ UNCHANGED notCleanVars

\* if !status.success() { return Err(RunClean { .. }) }  Ok(())
CleanReturn ==
    /\ clpc = "waited"
    /\ cleanResult' =
        IF ~Success(cstatus)
        THEN RunClean(from_utf8_lossy(cbuf["stdout"]), from_utf8_lossy(cbuf["stderr"]), cstatus)
        ELSE [kind |-> "Ok"]
    /\ clpc' = "returned"
    /\ UNCHANGED <<cprog, corphan, cchildSt, cchildStatus, cwrote, cpipe, cbuf, cspawnErr,
                   cstatus>>
    /\ UNCHANGED notCleanVars

CleanNext ==
    \/ CleanSpawnFail
    \/ CleanSpawnOk
    \/ \E s \in Streams : CleanChildWrite(s)
    \/ CleanChildExit
    \/ CleanOrphanExit
    \/ \E s \in Streams : CleanCollect(s)
    \/ CleanWait
    \/ CleanReturn

\* no build has been called
RelayIdle == RelayInit({[stdout |-> <<>>, stderr |-> <<>>, code |-> "exit0"]}) /\ orphan = FALSE

\* a call of clean, nothing else going on
CleanStart == RelayIdle /\ ArgIdle /\ SinkIdle /\ ArtIdle /\ SelIdle /\ RdIdle /\ NixIdle /\ FlagIdle /\ CleanInit

CleanSpec == CleanStart /\ [][CleanNext]_vars

\* ------------------------------------------------------------------- C12
\* C12: clean returns Ok(()) exactly when the driver was spawned and exited
\* with status 0; when it exits with another status the result is RunClean
\* with everything the driver wrote to stdout, everything it wrote to stderr
\* (decoded lossily) and that status; when it cannot be spawned the result is
\* CallBuilderError.
C12_CleanResult ==
    clpc = "returned" =>
        /\ cleanResult.kind = "Ok" <=> (cchildSt = "reaped" /\ cchildStatus = "exit0")
        /\ (cchildSt = "reaped" /\ cchildStatus # "exit0") =>
            cleanResult = RunClean(from_utf8_lossy(Bytes(cprog.stdout)),
                                   from_utf8_lossy(Bytes(cprog.stderr)), cchildStatus)
        /\ cchildSt = "spawnfailed" => cleanResult = CallBuilderError(cspawnErr)
        /\ cchildSt \in {"reaped", "spawnfailed"}

C12_Witness ==
    /\ clpc = "returned"
    /\ cleanResult.kind = "Err"
    /\ cleanResult.error = "RunClean"
    /\ cleanResult.status = "exit1"
    /\ cleanResult.stdout = <<"a", NL, REPLACEMENT, NL>>
    /\ Len(cleanResult.stderr) = 3

\* ------------------------------------------------------------------- C13
\* C13: clean is synchronous: when it has returned after a successful spawn
\* the driver has terminated and been waited for, everything it wrote has
\* been collected, and no relay thread exists.
C13_CleanSynchronous ==
    (clpc = "returned" /\ cchildSt # "spawnfailed") =>
        /\ cchildSt = "reaped"
        /\ \A s \in Streams :
            /\ cwrote[s] = Len(cprog[s])
            /\ cpipe[s] = <<>>
            /\ cbuf[s] = Bytes(cprog[s])
        /\ \A s \in Streams : rpc[s] = "notstarted"
        /\ wpc = "notstarted"
        /\ LiveSenders = {}

C13_Witness ==
    /\ clpc = "returned"
    /\ cleanResult.kind = "Ok"
    /\ cchildSt = "reaped"
    /\ Len(cbuf["stdout"]) = 2
    /\ Len(cbuf["stderr"]) = 5

\* ------------------------------------------------------------------- C14
\* the statements of build that follow a successful spawn
BuildStep ==
    \/ BuildChannel
    \/ \E s \in Streams : BuildSpawnReader(s)
    \/ BuildSpawnWaiter
    \/ BuildReturn

\* C14: build is asynchronous: after a successful spawn each of its
\* remaining statements, up to the return, can be executed whatever the child
\* and the relay threads have done so far; it never waits for the child to
\* terminate or for output to be read.
C14_BuildNeverWaits ==
    bpc \in {"spawned", "channel", "stdout_started", "stderr_started", "waiter_started"}
        => ENABLED BuildStep

C14_Witness ==
    /\ bpc = "returned"
    /\ buildResult = [kind |-> "Ok"]
    /\ childSt = "running"
    /\ Len(prog.stdout) = 2
    /\ \A s \in Streams : wrote[s] = 0 /\ rpc[s] = "read"
    /\ wpc = "wait"
    /\ chan = <<>>

\* ============================================ the command line of the driver
\* the largest number of packages passed to build or clean
MaxPkgs == 2

notArgVars == <<relayVars, cleanVars, sinkVars, artVars, selVars, rdVars, nixVars, flagVars>>

\* the package names a caller may pass, the empty name included
PkgNames == { <<"f", "o", "o">>, <<"b", "a", "r">>, <<>> }

\* the directories and environment paths a caller may pass
Dirs == { <<"/", "d">>, <<"/", "e", BAD>> }

\* the value of FLOX_BUILD_MK
FLOX_BUILD_MK == <<"f", "l", "o", "x", ".", "m", "k">>

\* Path::display: bytes that are not UTF-8 are shown as U+FFFD
display(path) == from_utf8_lossy(path)

\* base_command: -f FLOX_BUILD_MK -C base_dir FLOX_ENV=<flox_env>
base_command(dir, env) ==
    << <<"-", "f">>, FLOX_BUILD_MK, <<"-", "C">>, dir,
       <<"F", "L", "O", "X", "_", "E", "N", "V", "=">> \o display(env) >>

\* packages.iter().map(|p| format!("<prefix>/{p}"))
Prefixed(prefix, pkgs) == [i \in 1..Len(pkgs) |-> prefix \o <<"/">> \o pkgs[i]]

\* variant: the goal "build" is always passed, before the per-package goals
build_args_AlwaysAll(dir, env, pkgs) ==
    base_command(dir, env) \o << <<"b", "u", "i", "l", "d">> >>
        \o Prefixed(<<"b", "u", "i", "l", "d">>, pkgs)

\* the arguments build gives to the command
build_args(dir, env, pkgs) ==
    IF pkgs = <<>>
    THEN Append(base_command(dir, env), <<"b", "u", "i", "l", "d">>)
    ELSE base_command(dir, env) \o Prefixed(<<"b", "u", "i", "l", "d">>, pkgs)

\* variant: the per-package goals of clean keep the prefix of build
clean_args_BuildPrefix(dir, env, pkgs) ==
    IF pkgs = <<>>
    THEN Append(base_command(dir, env), <<"c", "l", "e", "a", "n">>)
    ELSE base_command(dir, env) \o Prefixed(<<"b", "u", "i", "l", "d">>, pkgs)

\* variant: the goal clean is passed whatever packages are given
clean_args_AlwaysAll(dir, env, pkgs) ==
    Append(base_command(dir, env), <<"c", "l", "e", "a", "n">>)

\* variant: no goal is passed when no package is given
clean_args_NoGoal(dir, env, pkgs) ==
    IF pkgs = <<>>
    THEN base_command(dir, env)
    ELSE base_command(dir, env) \o Prefixed(<<"c", "l", "e", "a", "n">>, pkgs)

\* the arguments clean gives to the command
clean_args(dir, env, pkgs) ==
    IF pkgs = <<>>
    THEN Append(base_command(dir, env), <<"c", "l", "e", "a", "n">>)
    ELSE base_command(dir, env) \o Prefixed(<<"c", "l", "e", "a", "n">>, pkgs)

\* Command::spawn: a stream the command does not configure is inherited from
\* the parent
spawn_stdio(cfg) == [k \in DOMAIN cfg |-> IF cfg[k] = "unset" THEN "inherit" ELSE cfg[k]]

\* the streams build configures: command.stdout(Stdio::piped());
\* command.stderr(Stdio::piped()); nothing for stdin
build_stdio == [stdin |-> "unset", stdout |-> "piped", stderr |-> "piped"]

ArgInit ==
    /\ base_dir \in Dirs
    /\ flox_env \in Dirs
    /\ packages \in SeqUpTo(PkgNames, MaxPkgs)
    /\ buildDone = FALSE
    /\ buildArgv = <<>>
    /\ cleanDone = FALSE
    /\ cleanArgv = <<>>
    /\ buildStdio = [stdin |-> "unset", stdout |-> "unset", stderr |-> "unset"]

\* build puts its command together and spawns it
ArgBuild ==
    /\ ~buildDone
    /\ buildArgv' = build_args(base_dir, flox_env, packages)
    /\ buildStdio' = spawn_stdio(build_stdio)
    /\ buildDone' = TRUE
    /\ UNCHANGED <<base_dir, flox_env, packages, cleanDone, cleanArgv>>
    /\ UNCHANGED notArgVars

\* clean puts its command together
ArgClean ==
    /\ ~cleanDone
    /\ cleanArgv' = clean_args(base_dir, flox_env, packages)
    /\ cleanDone' = TRUE
    /\ UNCHANGED <<base_dir, flox_env, packages, buildDone, buildArgv, buildStdio>>
    /\ UNCHANGED notArgVars

ArgNext == ArgBuild \/ ArgClean

\* the construction of the command lines, nothing else going on
ArgStart == RelayIdle /\ CleanIdle /\ SinkIdle /\ ArtIdle /\ SelIdle /\ RdIdle /\ NixIdle /\ FlagIdle /\ ArgInit

ArgSpec == ArgStart /\ [][ArgNext]_vars

\* ------------------------------------------------------------------- C15
\* C15: the build argument vector is -f, the driver script, -C, base_dir,
\* FLOX_ENV=<flox_env>, followed by the single goal build when no package is
\* given and otherwise by one goal build/<name> per package, in the same
\* order, duplicates included.
C15_BuildArgv ==
    buildDone =>
        /\ SubSeq(buildArgv, 1, 5) =
            << <<"-", "f">>, FLOX_BUILD_MK, <<"-", "C">>, base_dir,
               <<"F", "L", "O", "X", "_", "E", "N", "V", "=">> \o display(flox_env) >>
        /\ packages = <<>> =>
            /\ Len(buildArgv) = 6
            /\ buildArgv[6] = <<"b", "u", "i", "l", "d">>
        /\ packages # <<>> =>
            /\ Len(buildArgv) = 5 + Len(packages)
            /\ \A i \in 1..Len(packages) :
                buildArgv[5 + i] = <<"b", "u", "i", "l", "d", "/">> \o packages[i]

C15_Witness ==
    /\ buildDone
    /\ packages = << <<"f", "o", "o">>, <<"f", "o", "o">> >>
    /\ Len(buildArgv) = 7
    /\ buildArgv[7] = <<"b", "u", "i", "l", "d", "/", "f", "o", "o">>

\* ------------------------------------------------------------------- C16
\* a goal of build turned into the goal of clean: the leading build is
\* replaced by clean
CleanGoalOf(goal) == <<"c", "l", "e", "a", "n">> \o SubSeq(goal, 6, Len(goal))

\* C16: the clean argument vector has the binding arguments of the build
\* vector and, goal for goal, the goals of the build vector with the prefix
\* build replaced by clean: clean for no package, clean/<name> per package.
C16_CleanArgv ==
    (buildDone /\ cleanDone) =>
        /\ Len(cleanArgv) = Len(buildArgv)
        /\ SubSeq(cleanArgv, 1, 5) = SubSeq(buildArgv, 1, 5)
        /\ \A i \in 6..Len(buildArgv) : cleanArgv[i] = CleanGoalOf(buildArgv[i])
        /\ packages = <<>> => cleanArgv[6] = <<"c", "l", "e", "a", "n">>
        /\ \A i \in 1..Len(packages) :
            cleanArgv[5 + i] = <<"c", "l", "e", "a", "n", "/">> \o packages[i]

C16_Witness ==
    /\ buildDone /\ cleanDone
    /\ packages = << <<"f", "o", "o">>, <<"b", "a", "r">> >>
    /\ cleanArgv[6] = <<"c", "l", "e", "a", "n", "/", "f", "o", "o">>
    /\ cleanArgv[7] = <<"c", "l", "e", "a", "n", "/", "b", "a", "r">>

\* ========================== Containerize::handle, the write step, and sinks
\* the largest number of chunks stream_container writes
MaxChunks == 2

notSinkVars == <<relayVars, cleanVars, argVars, artVars, selVars, rdVars, nixVars, flagVars>>

Targets == {"file", "stdout", "docker", "podman"}

\* the sink OutputTarget::to_writer makes for a target
SinkOf(tg) == IF tg = "file" THEN "File" ELSE IF tg = "stdout" THEN "Stdout" ELSE "Runtime"

\* the result of a failed write step
StepErr(why) == [kind |-> "Err", why |-> why]

SinkInit ==
    /\ target \in Targets
    /\ imageLen \in 1..MaxChunks
    /\ lcode \in ExitCodes
    /\ syncOk \in BOOLEAN
    /\ hpc = "start"
    /\ sinkKind = "none"
    /\ stepResult = [kind |-> "none"]
    /\ waitResult = "none"
    /\ ops = <<>>
    /\ sent = 0
    /\ lSt = "none"
    /\ lStatus = "none"
    /\ stdinOpen = FALSE
    /\ inPipe = 0
    /\ lcmd = [program |-> "none"]

\* output.to_writer()? fails: the file cannot be opened, the runtime not spawned
SinkOpenFail ==
    /\ hpc = "start"
    /\ target # "stdout"
    /\ stepResult' = StepErr(IF target = "file" THEN "open" ELSE "spawn")
    /\ hpc' = "done"
    /\ UNCHANGED <<target, imageLen, lcode, syncOk, lcmd, sinkKind, waitResult, ops, sent, lSt,
                   lStatus, stdinOpen, inPipe>>
    /\ UNCHANGED notSinkVars

\* the Runtime an OutputTarget::Runtime holds
RuntimeOf(tg) == IF tg = "docker" THEN "Docker" ELSE "Podman"

\* variant: docker is run whatever the runtime
runtime_cmd_AlwaysDocker(runtime) == "docker"

\* Runtime::to_writer: let cmd = match self { Docker => "docker", Podman => "podman" }
runtime_cmd(runtime) == IF runtime = "Docker" THEN "docker" ELSE "podman"

\* Command::new(cmd).arg("load").stdin(Stdio::piped()).spawn()
load_command(runtime) ==
    [program |-> runtime_cmd(runtime),
     args |-> <<"load">>,
     stdio |-> spawn_stdio([stdin |-> "piped", stdout |-> "unset", stderr |-> "unset"])]

\* output.to_writer()? succeeds; a runtime sink owns a spawned loader and its stdin
SinkOpenOk ==
    /\ hpc = "start"
    /\ sinkKind' = SinkOf(target)
    /\ IF SinkOf(target) = "Runtime"
       THEN /\ lSt' = "running"
            /\ stdinOpen' = TRUE
            /\ lcmd' = load_command(RuntimeOf(target))
       ELSE UNCHANGED <<lSt, stdinOpen, lcmd>>
    /\ hpc' = "stream"
    /\ UNCHANGED <<target, imageLen, lcode, syncOk, stepResult, waitResult, ops, sent, lStatus,
                   inPipe>>
    /\ UNCHANGED notSinkVars

\* stream_container writes a chunk to the sink; a write to the loader's stdin
\* blocks while the pipe is full
StreamWrite ==
    /\ hpc = "stream"
    /\ sent < imageLen
    /\ IF sinkKind = "Runtime"
       THEN /\ lSt = "running"
            /\ inPipe < PipeCap
            /\ inPipe' = inPipe + 1
       ELSE UNCHANGED inPipe
    /\ sent' = sent + 1
    /\ ops' = Append(ops, "write")
    /\ UNCHANGED <<target, imageLen, lcode, syncOk, lcmd, hpc, sinkKind, stepResult, waitResult, lSt,
                   lStatus, stdinOpen>>
    /\ UNCHANGED notSinkVars

\* source.stream_container(&mut writer)? fails: a write fails (for a runtime
\* sink because the loader is gone) or the source fails; the step returns and
\* the sink is dropped
StreamFail ==
    /\ hpc = "stream"
    /\ \/ /\ sent < imageLen
          /\ sinkKind = "Runtime" => lSt # "running"
          /\ ops' = Append(ops, "write")
       \/ UNCHANGED ops
    /\ stepResult' = StepErr("stream")
    /\ stdinOpen' = FALSE
    /\ hpc' = "done"
    /\ UNCHANGED <<target, imageLen, lcode, syncOk, lcmd, sinkKind, waitResult, sent, lSt, lStatus,
                   inPipe>>
    /\ UNCHANGED notSinkVars

\* stream_container has written everything; writer.wait() is called
StreamDone ==
    /\ hpc = "stream"
    /\ sent = imageLen
    /\ ops' = Append(ops, "wait")
    /\ hpc' = (IF sinkKind = "Runtime" THEN "wait_flush" ELSE "wait_sync")
    /\ UNCHANGED <<target, imageLen, lcode, syncOk, lcmd, sinkKind, stepResult, waitResult, sent, lSt,
                   lStatus, stdinOpen, inPipe>>
    /\ UNCHANGED notSinkVars

\* variant: an error of sync_all / flush is not passed on
SinkWaitSync_Swallow ==
    /\ hpc = "wait_sync"
    /\ waitResult' = "Ok"
    /\ stepResult' = [kind |-> "Ok"]
    /\ hpc' = "done"
    /\ UNCHANGED <<target, imageLen, lcode, syncOk, lcmd, sinkKind, ops, sent, lSt, lStatus,
                   stdinOpen, inPipe>>
    /\ UNCHANGED notSinkVars

\* ContainerSink::wait for fs::File (self.sync_all()?) and io::Stdout (self.flush()?)
SinkWaitSync ==
    /\ hpc = "wait_sync"
    /\ waitResult' = (IF syncOk THEN "Ok" ELSE "IoError")
    /\ stepResult' = (IF syncOk THEN [kind |-> "Ok"] ELSE StepErr("wait"))
    /\ hpc' = "done"
    /\ UNCHANGED <<target, imageLen, lcode, syncOk, lcmd, sinkKind, ops, sent, lSt, lStatus,
                   stdinOpen, inPipe>>
    /\ UNCHANGED notSinkVars

\* RuntimeSink::wait: self.flush()?  (flushing a ChildStdin does nothing)
RuntimeWaitFlush ==
    /\ hpc = "wait_flush"
    /\ hpc' = "wait_close"
    /\ UNCHANGED <<target, imageLen, lcode, syncOk, lcmd, sinkKind, stepResult, waitResult, ops, sent,
                   lSt, lStatus, stdinOpen, inPipe>>
    /\ UNCHANGED notSinkVars

\* variant: the loader's stdin is kept open while waiting for it
RuntimeWaitClose_KeepOpen ==
    /\ hpc = "wait_close"
    /\ hpc' = "wait_child"
    /\ UNCHANGED <<target, imageLen, lcode, syncOk, lcmd, sinkKind, stepResult, waitResult, ops, sent,
                   lSt, lStatus, stdinOpen, inPipe>>
    /\ UNCHANGED notSinkVars

\* RuntimeSink::wait: drop(self.child.stdin.take())
RuntimeWaitClose ==
    /\ hpc = "wait_close"
    /\ stdinOpen' = FALSE
    /\ hpc' = "wait_child"
    /\ UNCHANGED <<target, imageLen, lcode, syncOk, lcmd, sinkKind, stepResult, waitResult, ops, sent,
                   lSt, lStatus, inPipe>>
    /\ UNCHANGED notSinkVars

\* variant: the loader's exit status is not looked at
RuntimeWaitChild_IgnoreStatus ==
    /\ hpc = "wait_child"
    /\ lSt = "exited"
    /\ lSt' = "reaped"
    /\ waitResult' = "Ok"
    /\ stepResult' = [kind |-> "Ok"]
    /\ hpc' = "done"
    /\ UNCHANGED <<target, imageLen, lcode, syncOk, lcmd, sinkKind, ops, sent, lStatus, stdinOpen,
                   inPipe>>
    /\ UNCHANGED notSinkVars

\* RuntimeSink::wait: let status = self.child.wait()?; if !status.success() { Err }
RuntimeWaitChild ==
    /\ hpc = "wait_child"
    /\ lSt = "exited"
    /\ lSt' = "reaped"
    /\ waitResult' = (IF Success(lStatus) THEN "Ok" ELSE "ProcessFailed")
    /\ stepResult' = (IF Success(lStatus) THEN [kind |-> "Ok"] ELSE StepErr("wait"))
    /\ hpc' = "done"
    /\ UNCHANGED <<target, imageLen, lcode, syncOk, lcmd, sinkKind, ops, sent, lStatus, stdinOpen,
                   inPipe>>
    /\ UNCHANGED notSinkVars

\* the loader reads a chunk of its input
LoaderRead ==
    /\ lSt = "running"
    /\ inPipe > 0
    /\ inPipe' = inPipe - 1
    /\ UNCHANGED <<target, imageLen, lcode, syncOk, lcmd, hpc, sinkKind, stepResult, waitResult, ops,
                   sent, lSt, lStatus, stdinOpen>>
    /\ UNCHANGED notSinkVars

\* the loader has read its input to end-of-stream and exits
LoaderEof ==
    /\ lSt = "running"
    /\ inPipe = 0
    /\ ~stdinOpen
    /\ lSt' = "exited"
    /\ lStatus' = lcode
    /\ UNCHANGED <<target, imageLen, lcode, syncOk, lcmd, hpc, sinkKind, stepResult, waitResult, ops,
                   sent, stdinOpen, inPipe>>
    /\ UNCHANGED notSinkVars

\* the loader gives up before the end of its input
LoaderDie ==
    /\ lSt = "running"
    /\ stdinOpen
    /\ lSt' = "exited"
    /\ lStatus' = "exit1"
    /\ inPipe' = 0
    /\ UNCHANGED <<target, imageLen, lcode, syncOk, lcmd, hpc, sinkKind, stepResult, waitResult, ops,
                   sent, stdinOpen>>
    /\ UNCHANGED notSinkVars

SinkNext ==
    \/ SinkOpenFail
    \/ SinkOpenOk
    \/ StreamWrite
    \/ StreamFail
    \/ StreamDone
    \/ SinkWaitSync
    \/ RuntimeWaitFlush
    \/ RuntimeWaitClose
    \/ RuntimeWaitChild
    \/ LoaderRead
    \/ LoaderEof
    \/ LoaderDie

\* a write step of containerize, nothing else going on
SinkStart == RelayIdle /\ CleanIdle /\ ArgIdle /\ ArtIdle /\ SelIdle /\ RdIdle /\ NixIdle /\ FlagIdle /\ SinkInit

SinkSpec == SinkStart /\ [][SinkNext]_vars

\* the write step runs on its thread and the loader is a running process: a
\* step that stays possible is taken; the loader is not obliged to give up
SinkFairness ==
    /\ WF_vars(SinkOpenFail \/ SinkOpenOk)
    /\ WF_vars(StreamWrite \/ StreamFail \/ StreamDone)
    /\ WF_vars(SinkWaitSync)
    /\ WF_vars(RuntimeWaitFlush)
    /\ WF_vars(RuntimeWaitClose)
    /\ WF_vars(RuntimeWaitChild)
    /\ WF_vars(LoaderRead)
    /\ WF_vars(LoaderEof)

SinkFairSpec == SinkStart /\ [][SinkNext]_vars /\ SinkFairness

\* the number of calls of wait made on the sink
WaitCalls == Cardinality({ i \in 1..Len(ops) : ops[i] = "wait" })

\* ------------------------------------------------------------------- C17
\* C17: RuntimeSink::wait flushes, closes the loader's stdin and only then
\* waits: the stdin is closed whenever the wait is under way, so that with a
\* loader that reads its input to the end and exits, wait returns and the
\* loader is reaped.
C17_CloseBeforeWait ==
    /\ [](hpc = "wait_child" => ~stdinOpen)
    /\ (hpc = "wait_flush") ~> (hpc = "done" /\ lSt = "reaped")

C17_Witness ==
    /\ hpc = "done"
    /\ sinkKind = "Runtime"
    /\ lSt = "reaped"
    /\ lStatus = "exit0"
    /\ ops = <<"write", "write", "wait">>

\* ------------------------------------------------------------------- C18
\* C18: for a subprocess-backed sink wait fails whenever the loader ended
\* with a status other than 0, even when every write succeeded, and succeeds
\* when the loader ended with status 0.
C18_RuntimeWaitResult ==
    (sinkKind = "Runtime" /\ waitResult # "none") =>
        /\ lSt = "reaped"
        /\ ~Success(lStatus) => (waitResult = "ProcessFailed" /\ stepResult.kind = "Err")
        /\ Success(lStatus) => (waitResult = "Ok" /\ stepResult.kind = "Ok")

C18_Witness ==
    /\ sinkKind = "Runtime"
    /\ waitResult = "ProcessFailed"
    /\ lStatus = "exit1"
    /\ sent = imageLen
    /\ ops = <<"write", "write", "wait">>

C20_WaitExactlyOnce ==
    (hpc = "done" /\ sinkKind # "none") =>
        /\ WaitCalls = 1
        /\ ops[Len(ops)] = "wait"

\* ------------------------------------------------------------------- C21
\* C21: pulling from an exhausted BuildOutput is stable: once next() has
\* returned None a further call is never blocked, every further call returns
\* None again, and no event is yielded or sent any more.
C21_NoneIsStable ==
    /\ [](Drained /\ nones <= MaxNone => ENABLED ConsumerNext)
    /\ [][ Drained =>
            /\ received' = received
            /\ chan = <<>> /\ chan' = <<>>
            /\ nones' >= nones
            /\ cpc' = "exhausted"
            /\ ConsumerNext => nones' = nones + 1 ]_vars

C21_Witness ==
    /\ nones = 2
    /\ cpc = "exhausted"
    /\ Len(received) = 3
    /\ received[3].tag = "Exit"

\* ------------------------------------------------------------------- C22
\* the lines of a written sequence that cannot be decoded
Undecodable(q) == { i \in 1..Len(q) : ~Decode(q[i]).ok }

\* C22: a line that cannot be decoded is dropped and nothing else: the step
\* that meets it sends no event, fails nothing and leaves the reader reading;
\* after a full drain the events of each pipe are exactly its decodable
\* lines in order, one warning was logged per undecodable line, Output::Exit
\* arrived once with the child's status, no event carries an undecodable
\* byte, and build returned Ok.
C22_DecodeErrorDropsLine ==
    /\ [][ \A s \in Streams :
            warned'[s] # warned[s] =>
                /\ warned'[s] = warned[s] + 1
                /\ rpc'[s] = "read"
                /\ Len(pipe'[s]) = Len(pipe[s]) - 1
                /\ chan' = chan
                /\ sender' = sender
                /\ buildResult' = buildResult
                /\ \A o \in Streams \ {s} : rpc'[o] = rpc[o] /\ pipe'[o] = pipe[o]
                /\ wpc' = wpc ]_vars
    /\ [](Drained =>
            /\ \A s \in Streams :
                /\ TextsOf(received, s) = DecodedLines(prog[s])
                /\ warned[s] = Cardinality(Undecodable(prog[s]))
            /\ WithTag(received, "Exit") = <<ExitEvent(childStatus)>>
            /\ childStatus = prog.code
            /\ \A i \in 1..Len(received) :
                received[i].tag \in {"Stdout", "Stderr"} =>
                    \A k \in 1..Len(received[i].text) : received[i].text[k] # BAD
            /\ buildResult = [kind |-> "Ok"])

C22_Witness ==
    /\ Drained
    /\ prog.stdout = << <<BAD>>, <<"a">> >>
    /\ prog.stderr = << <<"b", CR>> >>
    /\ warned["stdout"] = 1
    /\ TextsOf(received, "stdout") = << <<"a">> >>
    /\ TextsOf(received, "stderr") = << <<"b">> >>
    /\ Len(received) = 3

\* ------------------------------------------------------------------- C23
\* C23: the child launched by build has its stdout and its stderr wired as
\* pipes, never inherited from the parent, and its stdin is not the stdin of
\* the parent.
C23_StdioWiring ==
    buildDone =>
        /\ buildStdio.stdout = "piped"
        /\ buildStdio.stderr = "piped"
        /\ buildStdio.stdin # "inherit"

\* ===================================== the result links of builds and cleans
notArtVars == <<relayVars, cleanVars, argVars, sinkVars, selVars, rdVars, nixVars, flagVars>>

\* the packages the manifest of the environment defines
ManifestPkgs == { <<"f", "o", "o">>, <<"b", "a", "r">> }

\* the sandbox mode the manifest gives a package
SandboxOf(pkg) == IF pkg = <<"f", "o", "o">> THEN "pure" ELSE "off"

\* the base_dir and flox_env of the environment
ArtDir == <<"/", "d">>

\* tests::result_dir: result-<package>
result_dir(pkg) == <<"r", "e", "s", "u", "l", "t", "-">> \o pkg

\* tests::cache_dir: result-<package>-buildCache
cache_dir(pkg) == result_dir(pkg) \o <<"-", "b", "u", "i", "l", "d", "C", "a", "c", "h", "e">>

\* the result link and the cache link of each package of a set
LinksOf(pkgs) == { result_dir(p) : p \in pkgs } \cup { cache_dir(p) : p \in pkgs }

\* the goals of a command line of the driver: what follows the binding arguments
GoalsOf(argv) == { argv[i] : i \in 6..Len(argv) }

\* the packages a goal stands for: all of them for the bare verb, the named
\* one for <verb>/<name>
GoalPkgs(goal, verb) ==
    IF goal = verb THEN ManifestPkgs
    ELSE IF Len(goal) > Len(verb) /\ SubSeq(goal, 1, Len(verb) + 1) = verb \o <<"/">>
         THEN { SubSeq(goal, Len(verb) + 2, Len(goal)) }
         ELSE {}

\* the packages the driver builds: those of its build goals, every package
\* when it is given no goal at all (build is the default goal)
DriverBuilds(argv) ==
    IF GoalsOf(argv) = {} THEN ManifestPkgs
    ELSE UNION { GoalPkgs(g, <<"b", "u", "i", "l", "d">>) : g \in GoalsOf(argv) }

\* the packages the driver cleans
DriverCleans(argv) == UNION { GoalPkgs(g, <<"c", "l", "e", "a", "n">>) : g \in GoalsOf(argv) }

\* the links a successful run of the driver may leave in base_dir: a clean
\* goal removes the result and cache link of its packages, a build goal makes
\* the result link and, for a sandboxed build, the cache link
DriverOutcomes(fs, argv) ==
    LET built == DriverBuilds(argv)
        kept == fs \ LinksOf(DriverCleans(argv))
        made == { result_dir(p) : p \in built }
                    \cup { cache_dir(p) : p \in { q \in built : SandboxOf(q) = "pure" } }
        maybe == { cache_dir(p) : p \in { q \in built : SandboxOf(q) = "off" } }
    IN  { kept \cup made \cup m : m \in SUBSET maybe }

\* the record of a call that ends now
Call(op, pkgs, result, after) ==
    [op |-> op, targets |-> pkgs, result |-> result, before |-> links, after |-> after]

\* a history cut down to its two latest calls
Latest2(h) == IF Len(h) > 2 THEN Tail(h) ELSE h

ArtInit ==
    /\ links = {}
    /\ hist = <<>>

\* build of the given packages, drained until the driver has exited with success
ArtBuild(pkgs) ==
    /\ links' \in DriverOutcomes(links, build_args(ArtDir, ArtDir, pkgs))
    /\ hist' = Latest2(Append(hist, Call("build", pkgs, [kind |-> "Ok"], links')))
    /\ UNCHANGED notArtVars

\* clean of the given packages: the driver cannot be launched, or it runs
\* the clean goals and exits with success
ArtClean(pkgs) ==
    /\ \/ /\ \E e \in OsErrors :
                hist' = Latest2(Append(hist, Call("clean", pkgs, CallBuilderError(e), links)))
          /\ UNCHANGED links
       \/ /\ links' \in DriverOutcomes(links, clean_args(ArtDir, ArtDir, pkgs))
          /\ hist' = Latest2(Append(hist, Call("clean", pkgs, [kind |-> "Ok"], links')))
    /\ UNCHANGED notArtVars

ArtNext ==
    \/ \E pkgs \in SeqUpTo(ManifestPkgs, MaxPkgs) : ArtBuild(pkgs)
    \/ \E pkgs \in SeqUpTo(ManifestPkgs, MaxPkgs) : ArtClean(pkgs)

\* builds and cleans of one environment, nothing else going on
ArtStart == RelayIdle /\ CleanIdle /\ ArgIdle /\ SinkIdle /\ SelIdle /\ RdIdle /\ NixIdle /\ FlagIdle /\ ArtInit

ArtSpec == ArtStart /\ [][ArtNext]_vars

\* the packages a target set stands for
TargetedPkgs(pkgs) ==
    IF pkgs = <<>> THEN ManifestPkgs ELSE { pkgs[i] : i \in 1..Len(pkgs) }

\* ------------------------------------------------------------------- C24
\* C24: a clean that succeeds removes the result link and the cache link of
\* each targeted package, of every package for the empty target set, and
\* leaves every other link as it was.
C24_CleanRemovesTargeted ==
    \A i \in 1..Len(hist) :
        (hist[i].op = "clean" /\ hist[i].result = [kind |-> "Ok"]) =>
            /\ hist[i].after = hist[i].before \ LinksOf(TargetedPkgs(hist[i].targets))
            /\ \A p \in TargetedPkgs(hist[i].targets) :
                result_dir(p) \notin hist[i].after /\ cache_dir(p) \notin hist[i].after
            /\ \A p \in ManifestPkgs \ TargetedPkgs(hist[i].targets) :
                /\ result_dir(p) \in hist[i].after <=> result_dir(p) \in hist[i].before
                /\ cache_dir(p) \in hist[i].after <=> cache_dir(p) \in hist[i].before

C24_Witness ==
    /\ Len(hist) = 2
    /\ hist[1].op = "build"
    /\ hist[1].targets = << <<"f", "o", "o">>, <<"b", "a", "r">> >>
    /\ hist[2].op = "clean"
    /\ hist[2].targets = << <<"f", "o", "o">> >>
    /\ hist[2].before = { result_dir(<<"f", "o", "o">>), cache_dir(<<"f", "o", "o">>),
                          result_dir(<<"b", "a", "r">>) }
    /\ links = { result_dir(<<"b", "a", "r">>) }

MaxPath == 3

notSelVars == <<relayVars, cleanVars, argVars, sinkVars, artVars, rdVars, nixVars, flagVars>>

\* the directories a PATH may name (tests::detect_runtime_in_path)
PathDirs == {"docker-bin", "podman-bin", "combined-bin", "neither-bin"}

\* the files a directory contains
Contents(dir) ==
    IF dir = "docker-bin" THEN {"docker"}
    ELSE IF dir = "podman-bin" THEN {"podman"}
    ELSE IF dir = "combined-bin" THEN {"docker", "podman"}
    ELSE {}

\* the names of environments
EnvNames == { <<"t", "e", "s", "t">>, <<"e">> }

\* the strings given to Runtime::from_str
ParseInputs == {"docker", "podman", "invalid", "Docker", "PODMAN", "", "docker load"}

\* OutputTarget::Runtime(runtime)
RuntimeTarget(runtime) == [kind |-> "Runtime", runtime |-> runtime]

\* OutputTarget::File(FileOrStdout::File(path))
FileTarget(path) == [kind |-> "File", path |-> path]

\* variant: every string that is not podman is taken for docker
from_str_DefaultDocker(s) ==
    IF s = "podman" THEN [kind |-> "Ok", value |-> "Podman"]
    ELSE [kind |-> "Ok", value |-> "Docker"]

\* Runtime::from_str
from_str(s) ==
    IF s = "docker" THEN [kind |-> "Ok", value |-> "Docker"]
    ELSE IF s = "podman" THEN [kind |-> "Ok", value |-> "Podman"]
    ELSE [kind |-> "Err", error |-> "Registry must be 'docker' or 'podman'"]

\* utils::openers::first_in_path: the first directory of the path, in order,
\* that contains one of the candidates, with the first such candidate
RECURSIVE first_in_path(_, _)
first_in_path(candidates, path) ==
    IF path = <<>> THEN [found |-> FALSE]
    ELSE LET hits == SelectSeq(candidates, LAMBDA c : c \in Contents(Head(path)))
         IN  IF hits # <<>>
             THEN [found |-> TRUE, dir |-> Head(path), name |-> Head(hits)]
             ELSE first_in_path(candidates, Tail(path))

\* format!("{}-container.tar", env_name)
container_tar(env_name) ==
    env_name \o <<"-", "c", "o", "n", "t", "a", "i", "n", "e", "r", ".", "t", "a", "r">>

\* variant: podman is looked for before docker
detect_or_default_PodmanFirst(env_name, path_var) ==
    IF ~path_var.ok THEN FileTarget(container_tar(env_name))
    ELSE LET hit == first_in_path(<<"podman", "docker">>, path_var.dirs)
         IN  IF ~hit.found THEN FileTarget(container_tar(env_name))
             ELSE RuntimeTarget(from_str(hit.name).value)

\* OutputTarget::detect_or_default
detect_or_default(env_name, path_var) ==
    IF ~path_var.ok THEN FileTarget(container_tar(env_name))
    ELSE LET hit == first_in_path(<<"docker", "podman">>, path_var.dirs)
         IN  IF ~hit.found THEN FileTarget(container_tar(env_name))
             ELSE RuntimeTarget(from_str(hit.name).value)

SelInit ==
    /\ pathVar \in {[ok |-> FALSE]} \cup { [ok |-> TRUE, dirs |-> d] : d \in SeqUpTo(PathDirs, MaxPath) }
    /\ envName \in EnvNames
    /\ parseIn \in ParseInputs
    /\ detectDone = FALSE
    /\ detected = [kind |-> "none"]
    /\ parseDone = FALSE
    /\ parsed = [kind |-> "none"]

\* a call of OutputTarget::detect_or_default(env.name())
SelDetect ==
    /\ ~detectDone
    /\ detected' = detect_or_default(envName, pathVar)
    /\ detectDone' = TRUE
    /\ UNCHANGED <<pathVar, envName, parseIn, parseDone, parsed>>
    /\ UNCHANGED notSelVars

\* a call of Runtime::from_str, as for the argument of --runtime
SelParse ==
    /\ ~parseDone
    /\ parsed' = from_str(parseIn)
    /\ parseDone' = TRUE
    /\ UNCHANGED <<pathVar, envName, parseIn, detectDone, detected>>
    /\ UNCHANGED notSelVars

SelNext == SelDetect \/ SelParse

\* the choice of an output target, nothing else going on
SelStart == RelayIdle /\ CleanIdle /\ ArgIdle /\ SinkIdle /\ ArtIdle /\ RdIdle /\ NixIdle /\ FlagIdle /\ SelInit

SelSpec == SelStart /\ [][SelNext]_vars

\* ------------------------------------------------------------------- C26
\* the positions of PATH whose directory contains docker or podman
RuntimeDirs == { i \in 1..Len(pathVar.dirs) : Contents(pathVar.dirs[i]) \cap {"docker", "podman"} # {} }

\* C26: detect_or_default returns the runtime of the first directory of PATH,
\* in PATH order, that contains docker or podman, docker when it contains
\* both; it returns the file <env_name>-container.tar when no directory of
\* PATH contains either and when PATH cannot be read.
C26_DetectFirstInPath ==
    detectDone =>
        IF ~pathVar.ok \/ RuntimeDirs = {}
        THEN detected = [kind |-> "File", path |-> envName \o <<"-", "c", "o", "n", "t", "a", "i", "n", "e", "r", ".", "t", "a", "r">>]
        ELSE LET first == CHOOSE i \in RuntimeDirs : \A j \in RuntimeDirs : i <= j
             IN  detected = [kind |-> "Runtime",
                             runtime |-> IF "docker" \in Contents(pathVar.dirs[first])
                                         THEN "Docker" ELSE "Podman"]

C26_Witness ==
    /\ detectDone
    /\ pathVar = [ok |-> TRUE, dirs |-> <<"neither-bin", "combined-bin", "podman-bin">>]
    /\ detected = RuntimeTarget("Docker")

\* ------------------------------------------------------------------- C28
\* C28: Runtime::from_str succeeds exactly for the strings docker and podman,
\* giving Runtime::Docker and Runtime::Podman, and returns an error for every
\* other string.
C28_ParseRuntime ==
    parseDone =>
        /\ parsed.kind = "Ok" <=> parseIn \in {"docker", "podman"}
        /\ parseIn = "docker" => parsed = [kind |-> "Ok", value |-> "Docker"]
        /\ parseIn = "podman" => parsed = [kind |-> "Ok", value |-> "Podman"]
        /\ parseIn \notin {"docker", "podman"} => parsed.kind = "Err"

C28_Witness ==
    /\ parseDone
    /\ parseIn = "Docker"
    /\ parsed.kind = "Err"

\* ------------------------------------------------------------------- C27
\* C27: a runtime-backed sink exists only with a loader spawned as docker
\* (Runtime::Docker) or podman (Runtime::Podman) with the single argument
\* load and a piped stdin; each chunk written to the sink is put into the
\* stdin pipe of that loader; when the spawn fails the step returns the error
\* and there is no sink, no loader and no write.
C27_RuntimeSinkSpawn ==
    /\ [](sinkKind = "Runtime" =>
            /\ lSt # "none"
            /\ lcmd.program = (IF target = "docker" THEN "docker" ELSE "podman")
            /\ lcmd.args = <<"load">>
            /\ lcmd.stdio.stdin = "piped")
    /\ [](sinkKind # "Runtime" => (lSt = "none" /\ lcmd = [program |-> "none"]))
    /\ [][ (sinkKind = "Runtime" /\ sent' = sent + 1) =>
            (lSt = "running" /\ stdinOpen /\ inPipe' = inPipe + 1) ]_vars
    /\ [](stepResult = StepErr("spawn") =>
            /\ target \in {"docker", "podman"}
            /\ sinkKind = "none"
            /\ ops = <<>> /\ sent = 0 /\ inPipe = 0)

C27_Witness ==
    /\ target = "podman"
    /\ sinkKind = "Runtime"
    /\ lcmd.program = "podman"
    /\ sent = 2
    /\ inPipe = 1
    /\ lSt = "running"

\* ------------------------------------------------------------------- C29
\* the relay threads that have not finished
Unfinished == { s \in Streams : rpc[s] # "done" } \cup (IF wpc # "done" THEN {"waiter"} ELSE {})

\* the thread a sender is made for
ThreadOf(n) ==
    IF n = "stdout_sender" THEN "stdout" ELSE IF n = "stderr_sender" THEN "stderr" ELSE "waiter"

\* C29: from the creation of the channel on there are three senders and one
\* receiver: a sender is live exactly while the thread it is made for has not
\* finished, so that the live senders are as many as the unfinished relay
\* threads and at most three; once build has returned every live sender is
\* held by its thread and the receiver by the returned BuildOutput; without a
\* successful spawn there is no channel.
C29_ThreeSendersOneReceiver ==
    /\ (bpc \in {"start", "spawned"} \/ childSt = "spawnfailed") =>
        (\A n \in SenderNames : sender[n] = "none") /\ rcv = "none"
    /\ (bpc \notin {"start", "spawned"} /\ childSt # "spawnfailed") =>
        /\ \A n \in SenderNames : sender[n] # "none"
        /\ \A n \in SenderNames : n \in LiveSenders <=> ThreadOf(n) \in Unfinished
        /\ Cardinality(LiveSenders) = Cardinality(Unfinished)
        /\ Cardinality(LiveSenders) <= 3
        /\ rcv \in {"build", "consumer", "dropped"}
    /\ (bpc = "returned" /\ buildResult = [kind |-> "Ok"]) =>
        /\ \A n \in SenderNames : sender[n] \in {"thread", "dropped"}
        /\ rcv \in {"consumer", "dropped"}
        /\ rcv = "consumer" <=> cpc \in {"pulling", "exhausted"}

C29_Witness ==
    /\ bpc = "returned"
    /\ buildResult = [kind |-> "Ok"]
    /\ rcv = "consumer"
    /\ LiveSenders = {"stderr_sender"}
    /\ rpc["stdout"] = "done"
    /\ wpc = "done"

\* ------------------------------------------------------------------- C30
\* C30: the child is waited on by the exit-waiter thread alone, and once:
\* the step that reaps the child is the waiter's wait and no step of build,
\* of a reader or of the consumer; the waiter never comes back to waiting,
\* and a reaped child stays reaped with the status the wait returned.
C30_WaitedOnceByWaiter ==
    /\ [][ (childSt' = "reaped" /\ childSt # "reaped") =>
            /\ childSt = "exited"
            /\ wpc = "wait" /\ wpc' = "send"
            /\ wstatus' = childStatus
            /\ bpc' = bpc /\ rpc' = rpc /\ cpc' = cpc ]_vars
    /\ [][ (wpc = "send" \/ wpc = "done") =>
            /\ wpc' \in {"send", "done"}
            /\ wstatus' = wstatus ]_vars
    /\ [][ childSt = "reaped" => childSt' = "reaped" ]_vars
    /\ [](wpc \in {"send", "done"} <=> childSt = "reaped")

C30_Witness ==
    /\ childSt = "reaped"
    /\ wpc = "done"
    /\ wstatus = "exit1"
    /\ rpc["stdout"] = "read"
    /\ cpc = "pulling"

\* ------------------------------------------------------------------- C32
\* C32: when the write step has ended, on whatever path, a loader that was
\* spawned for a runtime-backed sink has had its stdin closed and has been
\* waited on.
C32_LoaderAlwaysReaped ==
    (hpc = "done" /\ lSt # "none") => (~stdinOpen /\ lSt = "reaped")

\* --------------------------------- read_output_to_channel and failing reads
notRdVars == <<relayVars, cleanVars, argVars, sinkVars, artVars, selVars, nixVars, flagVars>>

\* the longest reader content considered
MaxReads == 3

\* the warnings logged are counted modulo this number
WarnWrap == 2

\* what one call of next() on reader.lines() can meet: a line (decodable or
\* not), or a read of the pipe that the operating system fails; a failed read
\* consumes nothing, and the failure either is gone at the next read or stays
RdItems ==
    { [kind |-> "line", bytes |-> l, sticky |-> FALSE] : l \in { <<"a">>, <<BAD>> } }
        \cup { [kind |-> "ioerr", bytes |-> <<>>, sticky |-> st] : st \in BOOLEAN }

RdInit ==
    /\ rdSrc \in SeqUpTo(RdItems, MaxReads)
    /\ rdRx = TRUE
    /\ rdOut = <<>>
    /\ rdPc = "next"
    /\ rdHeld = <<>>
    /\ rdWarn = 0

\* warn!("failed to read line: {e}")
RdLogWarning == rdWarn' = (rdWarn + 1) % WarnWrap

\* for line in reader.lines() { let line = match line { Err(e) => { warn!; continue }, Ok(line) => line };
RdRead ==
    /\ rdPc = "next"
    /\ IF rdSrc = <<>>
       THEN /\ rdPc' = "done"
            /\ UNCHANGED <<rdSrc, rdHeld, rdWarn>>
       ELSE IF Head(rdSrc).kind = "line"
       THEN /\ rdSrc' = Tail(rdSrc)
            /\ IF Decode(Head(rdSrc).bytes).ok
               THEN /\ rdHeld' = Decode(Head(rdSrc).bytes).text
                    /\ rdPc' = "send"
                    /\ UNCHANGED rdWarn
               ELSE /\ RdLogWarning
                    /\ UNCHANGED <<rdHeld, rdPc>>
       ELSE /\ rdSrc' = IF Head(rdSrc).sticky THEN rdSrc ELSE Tail(rdSrc)
            /\ RdLogWarning
            /\ UNCHANGED <<rdHeld, rdPc>>
    /\ UNCHANGED <<rdRx, rdOut>>
    /\ UNCHANGED notRdVars

\* let Ok(_) = sender.send(mk_output(line)) else { break };
RdSend ==
    /\ rdPc = "send"
    /\ IF rdRx
       THEN /\ rdOut' = Append(rdOut, mk_output("stdout", rdHeld))
            /\ rdPc' = "next"
       ELSE /\ rdPc' = "done"
            /\ UNCHANGED rdOut
    /\ rdHeld' = <<>>
    /\ UNCHANGED <<rdSrc, rdRx, rdWarn>>
    /\ UNCHANGED notRdVars

\* the consumer drops the receiver while the reader runs
RdRxDrop ==
    /\ rdRx
    /\ rdPc # "done"
    /\ rdRx' = FALSE
    /\ UNCHANGED <<rdSrc, rdOut, rdPc, rdHeld, rdWarn>>
    /\ UNCHANGED notRdVars

RdNext == RdRead \/ RdSend \/ RdRxDrop

\* one reader thread, nothing else going on
RdStart == RelayIdle /\ CleanIdle /\ ArgIdle /\ SinkIdle /\ ArtIdle /\ SelIdle /\ NixIdle /\ FlagIdle /\ RdInit

RdSpec == RdStart /\ [][RdNext]_vars

\* the reader is an OS thread: a step of its loop that stays possible is
\* taken; the consumer is not obliged to drop the receiver
RdFairness == WF_vars(RdRead) /\ WF_vars(RdSend)

RdFairSpec == RdStart /\ [][RdNext]_vars /\ RdFairness

\* ------------------------------------------------------------------- C31
\* C31: the reader thread, given a reader of finite content (the child has
\* exited), eventually leaves its loop and drops its sender, whatever errors
\* the reads return.
C31_ReaderTerminates == (rdPc # "done") ~> (rdPc = "done")

\* ------------------------------- NixCommandLine::run_in_nix, NixApi::run
notNixVars == <<relayVars, cleanVars, argVars, sinkVars, artVars, selVars, rdVars, flagVars>>

\* what the nix process writes to one of its output streams
NixTexts == { <<>>, <<"t">>, <<BAD>> }

NixFns == {"run_in_nix", "run"}

\* std::str::from_utf8 succeeds
ValidUtf8(bytes) == \A i \in 1..Len(bytes) : bytes[i] # BAD

\* an error converted by `?` into anyhow::Error
NixErr(why) == [kind |-> "Err", why |-> why]

\* the body of run_in_nix after output() has returned the collected Output
run_in_nix_result(out, err) ==
    IF ~ValidUtf8(out) THEN NixErr("Utf8Error")
    ELSE IF ~ValidUtf8(err) THEN NixErr("Utf8Error")
    ELSE IF err # <<>>
         THEN [kind |-> "Err", why |-> "FXXXX", text |-> err, len |-> Len(err)]
         ELSE [kind |-> "Ok", value |-> out]

\* the body of run after child.wait() has returned the ExitStatus
run_result(status) == [kind |-> "Ok", value |-> <<>>]

NixInit ==
    /\ nixFn \in NixFns
    /\ nixIn \in [spawnOk : BOOLEAN, code : ExitCodes, out : NixTexts, err : NixTexts]
    /\ nixChild = "unspawned"
    /\ nixPc = "start"
    /\ nixResult = [kind |-> "none"]

\* Command::output() / Command::spawn() fails: `?` returns the io::Error
NixSpawnFail ==
    /\ nixPc = "start"
    /\ ~nixIn.spawnOk
    /\ nixResult' = NixErr("io")
    /\ nixPc' = "done"
    /\ UNCHANGED <<nixFn, nixIn, nixChild>>
    /\ UNCHANGED notNixVars

\* the nix process is started
NixSpawnOk ==
    /\ nixPc = "start"
    /\ nixIn.spawnOk
    /\ nixChild' = "running"
    /\ nixPc' = "wait"
    /\ UNCHANGED <<nixFn, nixIn, nixResult>>
    /\ UNCHANGED notNixVars

\* the nix process ends with its exit status, its output written
NixChildExit ==
    /\ nixChild = "running"
    /\ nixChild' = "exited"
    /\ UNCHANGED <<nixFn, nixIn, nixPc, nixResult>>
    /\ UNCHANGED notNixVars

\* run_in_nix: output().await returns once the process has ended, with its
\* status and everything it wrote; the result is made from stdout and stderr
NixOutputReturn ==
    /\ nixFn = "run_in_nix"
    /\ nixPc = "wait"
    /\ nixChild = "exited"
    /\ nixChild' = "reaped"
    /\ nixResult' = run_in_nix_result(nixIn.out, nixIn.err)
    /\ nixPc' = "done"
    /\ UNCHANGED <<nixFn, nixIn>>
    /\ UNCHANGED notNixVars

\* run: let _ = child.wait().await?; Ok(())
NixRunReturn ==
    /\ nixFn = "run"
    /\ nixPc = "wait"
    /\ nixChild = "exited"
    /\ nixChild' = "reaped"
    /\ nixResult' = run_result(nixIn.code)
    /\ nixPc' = "done"
    /\ UNCHANGED <<nixFn, nixIn>>
    /\ UNCHANGED notNixVars

NixNext == NixSpawnFail \/ NixSpawnOk \/ NixChildExit \/ NixOutputReturn \/ NixRunReturn

\* one call on the nix command line, nothing else going on
NixStart == RelayIdle /\ CleanIdle /\ ArgIdle /\ SinkIdle /\ ArtIdle /\ SelIdle /\ RdIdle /\ FlagIdle /\ NixInit

NixSpec == NixStart /\ [][NixNext]_vars

\* ------------------------------------------------------------------- C33
\* C33: when run_in_nix has returned after the nix process ran, its result is
\* Ok carrying the process's stdout if the exit status is 0 and an error if
\* the exit status is not 0, whatever the process wrote to stderr.
C33_AgreesWithExitStatus ==
    (nixFn = "run_in_nix" /\ nixPc = "done" /\ nixChild = "reaped") =>
        IF nixIn.code = "exit0"
        THEN nixResult.kind = "Ok" /\ nixResult.value = nixIn.out
        ELSE nixResult.kind = "Err"

\* ------------------------------------------------------------------- C34
\* C34: when run has returned, a nix process that was spawned has been waited
\* for; the result is an error if the process exited with a non-zero status
\* and is Ok(()) only if it exited with status 0.
C34_RunReportsExitStatus ==
    (nixFn = "run" /\ nixPc = "done") =>
        /\ nixChild \in {"unspawned", "reaped"}
        /\ (nixChild = "reaped" /\ nixIn.code # "exit0") => nixResult.kind = "Err"
        /\ nixResult.kind = "Ok" => (nixChild = "reaped" /\ nixIn.code = "exit0")

\* ------------------------------------------------------------ ToArgs::args
notFlagVars == <<relayVars, cleanVars, argVars, sinkVars, artVars, selVars, rdVars, nixVars>>

\* the longest list a flag's function yields
MaxElems == 2

\* values of Flag::FLAG
Flags == { <<"-", "f">>, <<"-", "-", "g">> }

\* the variants of FlagType
FlagTypes == {"Bool", "List", "Args", "Custom"}

\* the strings the function of a List, Args or Custom flag may yield
FlagElems == { <<"a">>, <<"b", " ">>, <<>> }

\* whether args is called on a T ("plain"), on None or on Some(T)
FlagOpts == {"plain", "None", "Some"}

\* [String]::join(sep): the separator between consecutive elements
RECURSIVE join(_, _)
join(v, sep) ==
    IF v = <<>> THEN <<>>
    ELSE IF Len(v) = 1 THEN Head(v)
    ELSE Head(v) \o sep \o join(Tail(v), sep)

\* variant: a List flag passes its elements as separate arguments
flag_args_ListAsArgs(in) ==
    CASE in.ty = "Bool" -> <<in.flag>>
      [] in.ty = "List" -> <<in.flag>> \o in.elems
      [] in.ty = "Args" -> <<in.flag>> \o in.elems
      [] in.ty = "Custom" -> in.elems

\* impl<T: Flag<T>> ToArgs for T
flag_args(in) ==
    CASE in.ty = "Bool" -> <<in.flag>>
      [] in.ty = "List" -> <<in.flag, join(in.elems, <<" ">>)>>
      [] in.ty = "Args" -> <<in.flag>> \o in.elems
      [] in.ty = "Custom" -> in.elems

\* Option::iter: no item for None, the value for Some
option_iter(in) == IF in.opt = "None" THEN <<>> ELSE <<in>>

\* flat_map(|t| t.args()).collect()
RECURSIVE flat_map_args(_)
flat_map_args(items) ==
    IF items = <<>> THEN <<>> ELSE flag_args(Head(items)) \o flat_map_args(Tail(items))

\* impl<T: ToArgs> ToArgs for Option<T>
option_args(in) == flat_map_args(option_iter(in))

\* the implementation of args the receiver's type selects
args(in) == IF in.opt = "plain" THEN flag_args(in) ELSE option_args(in)

FlagInit ==
    /\ flagIn \in [flag : Flags, ty : FlagTypes, elems : SeqUpTo(FlagElems, MaxElems), opt : FlagOpts]
    /\ flagDone = FALSE
    /\ flagArgs = <<>>

\* a call of args
FlagCall ==
    /\ ~flagDone
    /\ flagArgs' = args(flagIn)
    /\ flagDone' = TRUE
    /\ UNCHANGED flagIn
    /\ UNCHANGED notFlagVars

FlagNext == FlagCall

\* one call of args, nothing else going on
FlagStart == RelayIdle /\ CleanIdle /\ ArgIdle /\ SinkIdle /\ ArtIdle /\ SelIdle /\ RdIdle /\ NixIdle /\ FlagInit

FlagSpec == FlagStart /\ [][FlagNext]_vars

\* ------------------------------------------------------------------- C35
\* the position in the joined string just before element i
RECURSIVE OffsetOf(_, _)
OffsetOf(v, i) == IF i = 1 THEN 0 ELSE OffsetOf(v, i - 1) + Len(v[i - 1]) + 1

\* s is the elements of v, in order, with exactly one space between neighbours
JoinedBySpaces(v, s) ==
    /\ Len(s) = IF v = <<>> THEN 0 ELSE OffsetOf(v, Len(v)) + Len(v[Len(v)])
    /\ \A i \in 1..Len(v) : SubSeq(s, OffsetOf(v, i) + 1, OffsetOf(v, i) + Len(v[i])) = v[i]
    /\ \A i \in 2..Len(v) : s[OffsetOf(v, i)] = " "

\* the arguments the claim gives for a T of the given flag type
FlagShape(in, a) ==
    CASE in.ty = "Bool" -> a = <<in.flag>>
      [] in.ty = "List" -> Len(a) = 2 /\ a[1] = in.flag /\ JoinedBySpaces(in.elems, a[2])
      [] in.ty = "Args" ->
            /\ Len(a) = Len(in.elems) + 1
            /\ a[1] = in.flag
            /\ \A i \in 1..Len(in.elems) : a[i + 1] = in.elems[i]
      [] in.ty = "Custom" -> a = in.elems

\* C35: args yields [FLAG] for Bool; FLAG and the space-joined elements, two
\* arguments, for List; FLAG then each element for Args; the implementer's
\* list for Custom; nothing for None and T's arguments for Some(T).
C35_ArgsShape ==
    flagDone =>
        IF flagIn.opt = "None" THEN flagArgs = <<>> ELSE FlagShape(flagIn, flagArgs)

C35_Witness ==
    /\ flagDone
    /\ flagIn.ty = "List"
    /\ flagIn.opt = "Some"
    /\ Len(flagIn.elems) = 2
    /\ Len(flagArgs) = 2
====
